---- MODULE Spec2Model ----
(***************************************************************************)
(* A model of nws-query: the retrying HTTP fetch get_with_retry, the      *)
(* four-stage orchestrator get_weather_data (grid lookup, forecast +       *)
(* station list joined, merge with the latest observation), the location   *)
(* resolver resolve_location and the readiness prober wait_for_network     *)
(* (src/src/client.rs), the output formatter (output.rs, icons.rs),        *)
(* run_weather_app (lib.rs) and main (main.rs).                            *)
(*                                                                         *)
(* Conventions.                                                            *)
(*  - An Option<T> is a sequence: <<>> is None, <<x>> is Some(x).          *)
(*  - An f64 is held in tenths (194 is 19.4), a latitude or longitude in  *)
(*    hundredths of a degree; an i64 is held as it is.                     *)
(*  - A decoded response is held without its "properties" wrapper, and a   *)
(*    station feature as its station_identifier.                           *)
(*  - A call frame of get_with_retry keeps its locals while it runs; when  *)
(*    the function returns they are gone, and when the caller has taken    *)
(*    the result the frame is idle again.                                  *)
(*  - A step of the model is one resumption of the async task: from one    *)
(*    await (a response, the end of a sleep) to the next await or return.  *)
(*  - The remote services are the environment: every response is chosen    *)
(*    from the small sets below.                                           *)
(***************************************************************************)
EXTENDS Integers, Sequences, FiniteSets, TLC

VARIABLES
    pc,               \* position of get_weather_data: idle, start, grid, stage2, obs, done
    location,         \* the Location get_weather_data is called with
    task,             \* one call frame of get_with_retry per fetch
    calls,            \* history: number of get_with_retry calls made per fetch
    point_result,     \* Option: Result of the grid lookup (stage 1)
    forecast_result,  \* Option: Result of the forecast fetch, set at the join
    stations_result,  \* Option: Result of the station-list fetch, set at the join
    obs_result,       \* Option: Result of get_current_observation
    weather_data,     \* Option: the WeatherData under construction
    outcome,          \* Option: the Result get_weather_data returned
    args,             \* the command-line arguments (config.rs Args)
    rpc,              \* position of resolve_location: idle, start, geo, done
    geo_result,       \* Option: Result of the geocoding fetch
    resolve_result,   \* Option: the Result resolve_location returned
    probe,            \* the frame of wait_for_network
    app,              \* position of the program (main, run_weather_app)
    run_result,       \* Option: the Result run_weather_app returned
    stdout,           \* what the program printed on standard output
    stderr,           \* what the program printed on standard error
    exit_code,        \* Option: the exit status of the process
    client,           \* the configuration of the reqwest Client of WeatherClient
    outputs           \* history: the Results of create_output called on its own

vars == <<pc, location, task, calls, point_result, forecast_result, stations_result,
          obs_result, weather_data, outcome, args, rpc, geo_result, resolve_result, probe,
          app, run_result, stdout, stderr, exit_code, client, outputs>>

\* What get_weather_data and get_with_retry do not touch.
resolveVars == <<rpc, geo_result, resolve_result>>

progVars ==
    <<args, probe, app, run_result, stdout, stderr, exit_code, client, outputs>>

----------------------------------------------------------------------------
(* Program constants                                                       *)

MAX_RETRIES == 5

RETRY_DELAY_MS == 2000

\* MAX_RETRIES and RETRY_DELAY_MS of the client copy in main.rs
MAIN_MAX_RETRIES == 3

MAIN_RETRY_DELAY_MS == 1000

----------------------------------------------------------------------------
(* Bounds and input sets                                                   *)

MaxPeriods == 2

MaxStations == 2

Tasks == {"geo", "grid", "forecast", "stations", "obs"}

Stage2Tasks == {"forecast", "stations"}

SeqsUpTo(S, n) == UNION {[1..k -> S] : k \in 0..n}

\* latitude and longitude in hundredths of a degree
Locations ==
    { [lat |-> 3405, lon |-> -11824, name |-> "Beverly Hills"] }

GridRefs ==
    { [grid_id |-> "LOX", grid_x |-> 150, grid_y |-> 48,
       observation_stations |-> "https://api.weather.gov/gridpoints/LOX/150,48/stations"],
      [grid_id |-> "SGX", grid_x |-> 57, grid_y |-> 14,
       observation_stations |-> "https://api.weather.gov/gridpoints/SGX/57,14/stations"] }

Periods ==
    { [temperature |-> 68, temperature_unit |-> "F", short_forecast |-> "Mostly Sunny"],
      [temperature |-> 31, temperature_unit |-> "F", short_forecast |-> "Snow"],
      [temperature |-> 21, temperature_unit |-> "C", short_forecast |-> "Cloudy"] }

StationIds == {"KLAX", "KSAN"}

\* Option<ObservationValue<f64>> over the given values (tenths)
OptObservationValues(vals) ==
    {<<>>} \cup {<<[value |-> <<>>]>>} \cup {<<[value |-> <<v>>]>> : v \in vals}

Observations ==
    { [temperature |-> [value |-> t], relative_humidity |-> h,
       wind_speed |-> ws, wind_direction |-> wd] :
        t \in {<<>>, <<194>>, <<-26>>},
        h \in OptObservationValues({550}),
        ws \in OptObservationValues({31}),
        wd \in OptObservationValues({2700}) }

MaxZipLen == 6

MaxPlaces == 2

\* The characters a ZIP argument is made of: a digit, a letter, and a digit
\* that is not ASCII.
ZipChars == {"9", "x", "U+0663"}

ZipStrings == SeqsUpTo(ZipChars, MaxZipLen)

\* Option<f64> arguments, in hundredths of a degree: the boundaries of the
\* valid ranges, their neighbours outside, and a point inside.
OptLats == {<<>>} \cup {<<v>> : v \in {-9001, -9000, 3405, 9000, 9001}}

OptLons == {<<>>} \cup {<<v>> : v \in {-18001, -18000, -11824, 18000, 18001}}

\* The places of a geocoding response: two with well-formed coordinates in
\* range, one with a latitude out of range, one whose latitude is not a
\* number, one whose longitude is empty.
Places ==
    { [place_name |-> "Beverly Hills",
       longitude |-> <<"-", "1", "1", "8", ".", "2", "4">>,
       latitude |-> <<"3", "4", ".", "0", "5">>],
      [place_name |-> "Springfield",
       longitude |-> <<"-", "8", "9", ".", "6", "4">>,
       latitude |-> <<"3", "9", ".", "8">>],
      [place_name |-> "Polaris",
       longitude |-> <<"-", "1", "1", "8", ".", "2", "4">>,
       latitude |-> <<"9", "5", ".", "5", "0">>],
      [place_name |-> "Nowhere",
       longitude |-> <<"-", "1", "1", "8", ".", "2", "4">>,
       latitude |-> <<"3", "x">>],
      [place_name |-> "Blank",
       longitude |-> <<>>,
       latitude |-> <<"3", "4", ".", "0", "5">>] }

\* What a 2xx body decodes to, per fetch (the type parameter T of get_with_retry).
Payloads(t) ==
    CASE t = "geo"      -> {[places |-> ps] : ps \in SeqsUpTo(Places, MaxPlaces)}
      [] t = "grid"     -> GridRefs
      [] t = "forecast" -> {[periods |-> ps] : ps \in SeqsUpTo(Periods, MaxPeriods)}
      [] t = "stations" -> {[features |-> ss] : ss \in SeqsUpTo(StationIds, MaxStations)}
      [] t = "obs"      -> Observations

ErrorStatuses == {404, 503}

\* What one attempt can end in: the send fails (no response), a non-2xx
\* response, a 2xx response whose body does not decode as T, or a 2xx
\* response whose body decodes to a payload.
Responses(t) ==
    {[sent |-> FALSE, status |-> 0, text |-> "", json |-> <<>>]}
    \cup {[sent |-> TRUE, status |-> s, text |-> "upstream says no", json |-> <<>>] :
             s \in ErrorStatuses}
    \cup {[sent |-> TRUE, status |-> 200, text |-> "not the expected json", json |-> <<>>]}
    \cup {[sent |-> TRUE, status |-> 200, text |-> "json", json |-> <<p>>] :
             p \in Payloads(t)}

----------------------------------------------------------------------------
(* WeatherError (error.rs). Every error is a record of the same shape: the *)
(* enum variant (kind), and what the variant carries.                      *)

\* WeatherError::Network(e): e is the reqwest::Error of the send or of the
\* body decoding.
NetworkError(cause) ==
    [kind |-> "Network", cause |-> cause, status |-> 0, text |-> ""]

\* WeatherError::Api(format!("HTTP {}: {}", status, text))
ApiHttpError(status, text) ==
    [kind |-> "Api", cause |-> "HTTP", status |-> status, text |-> text]

\* WeatherError::Api("Unknown error")
UnknownError ==
    [kind |-> "Api", cause |-> "Unknown error", status |-> 0, text |-> ""]

\* WeatherError::NoWeatherData
NoWeatherData ==
    [kind |-> "NoWeatherData", cause |-> "", status |-> 0, text |-> ""]

Ok(v) == [ok |-> TRUE, val |-> <<v>>, err |-> <<>>]

Err(e) == [ok |-> FALSE, val |-> <<>>, err |-> <<e>>]

----------------------------------------------------------------------------
(* get_with_retry                                                          *)

\* response.status().is_success()
IsSuccess(status) == status >= 200 /\ status <= 299

\* The error one failed attempt leaves in last_error.
AttemptError(resp) ==
    IF resp.sent
    THEN IF IsSuccess(resp.status)
         THEN NetworkError("decode")
         ELSE ApiHttpError(resp.status, resp.text)
    ELSE NetworkError("send")

\* The attempt returns Ok(data).
AttemptSucceeds(resp) ==
    resp.sent /\ IsSuccess(resp.status) /\ resp.json # <<>>

\* const USER_AGENT
USER_AGENT == "waybar-weather-cli/2.0 (github.com/user/weather-cli)"

\* const REQUEST_TIMEOUT: Duration::from_secs(15)
REQUEST_TIMEOUT == 15

\* .connect_timeout(Duration::from_secs(10))
ConnectTimeout == 10

\* REQUEST_TIMEOUT of main.rs: Duration::from_secs(10)
MAIN_REQUEST_TIMEOUT == 10

\* WeatherClient::new of client.rs: the configuration Client::builder() is
\* given, each setting an Option.
NewClient ==
    [timeout |-> <<REQUEST_TIMEOUT>>, user_agent |-> <<USER_AGENT>>,
     connect_timeout |-> <<ConnectTimeout>>]

\* WeatherClient::new of main.rs: no connect timeout is set.
MainNewClient ==
    [timeout |-> <<MAIN_REQUEST_TIMEOUT>>, user_agent |-> <<USER_AGENT>>,
     connect_timeout |-> <<>>]

\* Mutant of Request: the probes are sent by a bare client, without the
\* User-Agent.
Request_HeadWithoutAgent(method, url) ==
    [method |-> method, url |-> url,
     user_agent |-> IF method = "HEAD" THEN <<>> ELSE client.user_agent,
     timeout |-> client.timeout]

\* self.client.get(url), self.client.head(url): the request the client
\* builds carries the User-Agent and the timeout of its configuration.
Request(method, url) ==
    [method |-> method, url |-> url, user_agent |-> client.user_agent,
     timeout |-> client.timeout]

\* MAX_RETRIES and RETRY_DELAY_MS of the client that runs: the one of
\* main.rs under main, the one of client.rs otherwise.
MaxRetries == IF app.prog = "main" THEN MAIN_MAX_RETRIES ELSE MAX_RETRIES

RetryDelayMs == IF app.prog = "main" THEN MAIN_RETRY_DELAY_MS ELSE RETRY_DELAY_MS

\* Mutant of AttemptsRemain: the loop runs over 1..=MAX_RETRIES + 1.
AttemptsRemain_OneMore(attempt) == attempt < MaxRetries + 1

\* if attempt < MAX_RETRIES
AttemptsRemain(attempt) == attempt < MaxRetries

\* Mutant of BackoffDelay: exponential backoff, the delay doubles.
BackoffDelay_Exponential(attempt) == RETRY_DELAY_MS * 2 ^ (attempt - 1)

\* Duration::from_millis(RETRY_DELAY_MS * attempt as u64)
BackoffDelay(attempt) == RetryDelayMs * attempt

\* last_error.unwrap_or(WeatherError::Api("Unknown error"))
FinalError(last_error) ==
    IF last_error = <<>> THEN UnknownError ELSE last_error[1]

\* A frame of get_with_retry that is not running.
IdleFrame ==
    [state |-> "idle", url |-> <<>>, attempt |-> 0, last_error |-> <<>>,
     delay |-> 0, result |-> <<>>,
     reqs |-> 0, resps |-> 0, waits |-> <<>>, last_resp |-> <<>>,
     agents |-> {}]

\* The call: last_error = None, and the first pass of the loop sends the
\* first request.  reqs, resps, waits and last_resp are history: the
\* requests sent, the answers received, the sleeps taken, the latest answer;
\* agents is the set of User-Agent headers the requests sent carried.
StartRetry(url) ==
    IF 1 <= MaxRetries
    THEN [IdleFrame EXCEPT !.state = "inflight", !.url = <<url>>,
                           !.attempt = 1, !.reqs = 1,
                           !.agents = {Request("GET", url).user_agent}]
    ELSE [IdleFrame EXCEPT !.state = "done", !.url = <<url>>,
                           !.result = <<Err(FinalError(<<>>))>>]

\* The frame once the function has returned r: the locals are gone, the
\* history stays.
ReturnFrame(f, r) ==
    [f EXCEPT !.state = "done", !.attempt = 0, !.last_error = <<>>,
              !.delay = 0, !.result = <<r>>]

\* Mutant of HandleResponse: the decoded data is kept but the loop is not
\* left while attempts remain.
HandleResponse_NoEarlyReturn(f, resp) ==
    LET g == [f EXCEPT !.resps = f.resps + 1, !.last_resp = <<resp>>] IN
    IF AttemptsRemain(f.attempt)
    THEN [g EXCEPT !.state = "sleep",
                   !.last_error = IF AttemptSucceeds(resp) THEN f.last_error
                                  ELSE <<AttemptError(resp)>>,
                   !.delay = BackoffDelay(f.attempt)]
    ELSE IF AttemptSucceeds(resp)
         THEN ReturnFrame(g, Ok(resp.json[1]))
         ELSE ReturnFrame(g, Err(FinalError(<<AttemptError(resp)>>)))

\* Mutant of HandleResponse: only the first error is recorded
\* (last_error.get_or_insert(..)).
HandleResponse_KeepsFirstError(f, resp) ==
    LET g == [f EXCEPT !.resps = f.resps + 1, !.last_resp = <<resp>>] IN
    IF AttemptSucceeds(resp)
    THEN ReturnFrame(g, Ok(resp.json[1]))
    ELSE LET e == IF f.last_error = <<>> THEN <<AttemptError(resp)>>
                  ELSE f.last_error IN
         IF AttemptsRemain(f.attempt)
         THEN [g EXCEPT !.state = "sleep", !.last_error = e,
                        !.delay = BackoffDelay(f.attempt)]
         ELSE ReturnFrame(g, Err(FinalError(e)))

\* Mutant of HandleResponse: a 4xx answer is not retried, the call returns
\* its error at once.
HandleResponse_ClientErrorFatal(f, resp) ==
    LET g == [f EXCEPT !.resps = f.resps + 1, !.last_resp = <<resp>>] IN
    IF AttemptSucceeds(resp)
    THEN ReturnFrame(g, Ok(resp.json[1]))
    ELSE LET e == <<AttemptError(resp)>> IN
         IF resp.sent /\ resp.status >= 400 /\ resp.status <= 499
         THEN ReturnFrame(g, Err(FinalError(e)))
         ELSE IF AttemptsRemain(f.attempt)
         THEN [g EXCEPT !.state = "sleep", !.last_error = e,
                        !.delay = BackoffDelay(f.attempt)]
         ELSE ReturnFrame(g, Err(FinalError(e)))

\* Mutant of HandleResponse: a 2xx body that does not decode ends the call
\* at once (response.json::<T>().await?).
HandleResponse_DecodeIsFatal(f, resp) ==
    LET g == [f EXCEPT !.resps = f.resps + 1, !.last_resp = <<resp>>] IN
    IF AttemptSucceeds(resp)
    THEN ReturnFrame(g, Ok(resp.json[1]))
    ELSE LET e == <<AttemptError(resp)>> IN
         IF resp.sent /\ IsSuccess(resp.status)
         THEN ReturnFrame(g, Err(FinalError(e)))
         ELSE IF AttemptsRemain(f.attempt)
         THEN [g EXCEPT !.state = "sleep", !.last_error = e,
                        !.delay = BackoffDelay(f.attempt)]
         ELSE ReturnFrame(g, Err(FinalError(e)))

\* The rest of one pass of the loop, from the answer to the request on:
\* return Ok(data), or record the error and then sleep, or leave the loop
\* and return the last error.
HandleResponse(f, resp) ==
    LET g == [f EXCEPT !.resps = f.resps + 1, !.last_resp = <<resp>>] IN
    IF AttemptSucceeds(resp)
    THEN ReturnFrame(g, Ok(resp.json[1]))
    ELSE LET e == <<AttemptError(resp)>> IN
         IF AttemptsRemain(f.attempt)
         THEN [g EXCEPT !.state = "sleep", !.last_error = e,
                        !.delay = BackoffDelay(f.attempt)]
         ELSE ReturnFrame(g, Err(FinalError(e)))

\* The sleep ends: the next pass of the loop sends the next request.
NextAttempt(f) ==
    [f EXCEPT !.state = "inflight", !.attempt = f.attempt + 1, !.delay = 0,
              !.reqs = f.reqs + 1, !.waits = Append(f.waits, f.delay),
              !.agents = f.agents \cup {Request("GET", f.url[1]).user_agent}]

Returned(t) == task[t].state = "done"

----------------------------------------------------------------------------
(* get_weather_data                                                        *)

\* Mutant of Round: the fraction is cut off (temp_c as i64, no round()).
Round_Truncates(x) ==
    IF x >= 0 THEN x \div 10 ELSE -((-x) \div 10)

\* f64::round: to the nearest integer, halves away from zero; x in tenths.
Round(x) ==
    IF x >= 0 THEN (x + 5) \div 10 ELSE -((5 - x) \div 10)

\* Mutant of FahrenheitToCelsius: the quotient is cut off, not rounded.
FahrenheitToCelsius_Truncates(t) ==
    LET n == (t - 32) * 5 IN
    IF n >= 0 THEN n \div 9 ELSE -((-n) \div 9)

\* ((t as f64 - 32.0) / (9.0 / 5.0)).round() as i64
FahrenheitToCelsius(t) ==
    LET n == (t - 32) * 5 IN
    IF n >= 0 THEN (2 * n + 9) \div 18 ELSE -((9 - 2 * n) \div 18)

\* weather_data as built from the first forecast period.
Baseline(first_period) ==
    [temperature |-> IF first_period.temperature_unit = "F"
                     THEN FahrenheitToCelsius(first_period.temperature)
                     ELSE first_period.temperature,
     condition |-> first_period.short_forecast,
     humidity |-> <<>>, wind_speed |-> <<>>, wind_direction |-> <<>>]

\* Option<ObservationValue<f64>>::and_then(|h| h.value)
AndThenValue(field) == IF field = <<>> THEN <<>> ELSE field[1].value

\* Mutant of MergeObservation: an observation without a temperature is
\* dropped whole.
MergeObservation_SkipsWithoutTemperature(wd, observation) ==
    IF observation.temperature.value = <<>>
    THEN wd
    ELSE [wd EXCEPT
            !.temperature = Round(observation.temperature.value[1]),
            !.humidity = AndThenValue(observation.relative_humidity),
            !.wind_speed = AndThenValue(observation.wind_speed),
            !.wind_direction = AndThenValue(observation.wind_direction)]

\* The Ok(observation) branch of the merge.
MergeObservation(wd, observation) ==
    [wd EXCEPT
       !.temperature = IF observation.temperature.value # <<>>
                       THEN Round(observation.temperature.value[1])
                       ELSE wd.temperature,
       !.humidity = AndThenValue(observation.relative_humidity),
       !.wind_speed = AndThenValue(observation.wind_speed),
       !.wind_direction = AndThenValue(observation.wind_direction)]

\* if let Ok(observation) = get_current_observation(..).await { .. }
Merge(wd, obs_res) ==
    IF obs_res.ok THEN MergeObservation(wd, obs_res.val[1]) ELSE wd

\* A URL: the endpoint and what it is keyed by.
Url(endpoint, id, x, y) == [endpoint |-> endpoint, id |-> id, x |-> x, y |-> y]

\* format!("https://api.weather.gov/points/{},{}", location.lat, location.lon)
PointUrl(loc) == Url("api.weather.gov/points", "", loc.lat, loc.lon)

\* format!("https://api.weather.gov/gridpoints/{}/{},{}/forecast", ..)
ForecastUrl(point) ==
    Url("api.weather.gov/gridpoints/forecast", point.grid_id, point.grid_x,
        point.grid_y)

\* &nws_point.properties.observation_stations
StationsUrl(point) == Url(point.observation_stations, "", 0, 0)

\* format!("https://api.weather.gov/stations/{}/observations/latest", station_id)
ObservationUrl(station_id) ==
    Url("api.weather.gov/stations/observations/latest", station_id, 0, 0)

----------------------------------------------------------------------------
(* Strings that the program looks into are sequences of characters; a      *)
(* character is a one-letter string, or the name of its code point.        *)

\* char::is_ascii_digit
IsAsciiDigit(c) == c \in {"0", "1", "2", "3", "4", "5", "6", "7", "8", "9"}

\* char::len_utf8: U+0663 (ARABIC-INDIC DIGIT THREE) takes two bytes.
LenUtf8(c) == IF c = "U+0663" THEN 2 ELSE 1

RECURSIVE StrLen(_)
\* str::len: the length in bytes
StrLen(s) == IF s = <<>> THEN 0 ELSE LenUtf8(Head(s)) + StrLen(Tail(s))

RECURSIVE Concat(_)
\* The characters as one string (to_string, clone).
Concat(s) == IF s = <<>> THEN "" ELSE Head(s) \o Concat(Tail(s))

DigitValue(c) ==
    CASE c = "0" -> 0 [] c = "1" -> 1 [] c = "2" -> 2 [] c = "3" -> 3
      [] c = "4" -> 4 [] c = "5" -> 5 [] c = "6" -> 6 [] c = "7" -> 7
      [] c = "8" -> 8 [] c = "9" -> 9

RECURSIVE DigitsValue(_)
DigitsValue(s) ==
    IF s = <<>> THEN 0
    ELSE 10 * DigitsValue(SubSeq(s, 1, Len(s) - 1)) + DigitValue(s[Len(s)])

AllDigits(s) == \A i \in 1..Len(s) : IsAsciiDigit(s[i])

\* The index of the first c in s, 0 when there is none.
IndexOf(s, c) ==
    IF \E i \in 1..Len(s) : s[i] = c
    THEN CHOOSE i \in 1..Len(s) : s[i] = c /\ \A j \in 1..(i - 1) : s[j] # c
    ELSE 0

----------------------------------------------------------------------------
(* resolve_location                                                        *)

\* WeatherError::InvalidZip(zip.to_string())
InvalidZip(zip) ==
    [kind |-> "InvalidZip", cause |-> "", status |-> 0, text |-> Concat(zip)]

\* WeatherError::LocationNotFound
LocationNotFound ==
    [kind |-> "LocationNotFound", cause |-> "", status |-> 0, text |-> ""]

\* WeatherError::InvalidCoordinates
InvalidCoordinates ==
    [kind |-> "InvalidCoordinates", cause |-> "", status |-> 0, text |-> ""]

\* WeatherError::Parse(e): e is the ParseFloatError, "empty" or "invalid".
ParseError(cause) ==
    [kind |-> "Parse", cause |-> cause, status |-> 0, text |-> ""]

\* str::parse::<f64>, the value in hundredths: an optional sign, then digits
\* with an optional point, at least one digit in all.  (An exponent, "inf"
\* and "nan" need letters that the strings used here do not have, and none
\* of them has more than two digits after the point.)
ParseFloat(s) ==
    LET signed == s # <<>> /\ s[1] \in {"+", "-"}
        body == IF signed THEN Tail(s) ELSE s
        dot == IndexOf(body, ".")
        int == IF dot = 0 THEN body ELSE SubSeq(body, 1, dot - 1)
        frac == IF dot = 0 THEN <<>> ELSE SubSeq(body, dot + 1, Len(body))
        cents == IF Len(frac) = 0 THEN 0
                 ELSE IF Len(frac) = 1 THEN 10 * DigitValue(frac[1])
                 ELSE DigitsValue(SubSeq(frac, 1, 2))
        magnitude == 100 * DigitsValue(int) + cents
    IN IF s = <<>> THEN Err(ParseError("empty"))
       ELSE IF AllDigits(int) /\ AllDigits(frac) /\ Len(int) + Len(frac) > 0
       THEN Ok(IF s[1] = "-" THEN -magnitude ELSE magnitude)
       ELSE Err(ParseError("invalid"))

\* Mutant of ZipIsValid: only the length is looked at.
ZipIsValid_LengthOnly(zip) == StrLen(zip) = 5

\* !(!zip.chars().all(|c| c.is_ascii_digit()) || zip.len() != 5)
ZipIsValid(zip) ==
    ~((~\A i \in 1..Len(zip) : IsAsciiDigit(zip[i])) \/ StrLen(zip) # 5)

\* Mutant of validate_coordinates: the boundaries are not in the ranges.
validate_coordinates_Exclusive(lat, lon) ==
    IF ~(lat > -9000 /\ lat < 9000) \/ ~(lon > -18000 /\ lon < 18000)
    THEN Err(InvalidCoordinates)
    ELSE Ok("unit")

\* validate_coordinates; lat and lon in hundredths of a degree
validate_coordinates(lat, lon) ==
    IF ~(lat >= -9000 /\ lat <= 9000) \/ ~(lon >= -18000 /\ lon <= 18000)
    THEN Err(InvalidCoordinates)
    ELSE Ok("unit")

\* format!("{:.2}", v) of a value in hundredths
Fixed2(v) ==
    LET m == IF v < 0 THEN -v ELSE v
        c == m % 100
    IN (IF v < 0 THEN "-" ELSE "") \o ToString(m \div 100) \o "."
       \o (IF c < 10 THEN "0" ELSE "") \o ToString(c)

\* format!("Coordinates ({:.2}, {:.2})", lat, lon)
CoordinatesName(lat, lon) ==
    "Coordinates (" \o Fixed2(lat) \o ", " \o Fixed2(lon) \o ")"

\* format!("https://api.zippopotam.us/us/{}", zip)
GeoUrl(zip) == Url("api.zippopotam.us/us", Concat(zip), 0, 0)

\* Mutant of ResolveLocation: a coordinate given alone is validated before
\* the pair is found incomplete.
ResolveLocation_ValidatesPartial(zip, lat, lon) ==
    IF zip # <<>>
    THEN IF ~ZipIsValid(zip[1])
         THEN [rpc |-> "done", result |-> <<Err(InvalidZip(zip[1]))>>, start |-> <<>>]
         ELSE [rpc |-> "geo", result |-> <<>>, start |-> <<GeoUrl(zip[1])>>]
    ELSE LET la == IF lat = <<>> THEN 0 ELSE lat[1]
             lo == IF lon = <<>> THEN 0 ELSE lon[1]
             valid == validate_coordinates(la, lo)
         IN IF ~valid.ok
            THEN [rpc |-> "done", result |-> <<Err(valid.err[1])>>, start |-> <<>>]
            ELSE IF lat # <<>> /\ lon # <<>>
            THEN [rpc |-> "done", start |-> <<>>,
                  result |-> <<Ok([lat |-> la, lon |-> lo,
                                   name |-> CoordinatesName(la, lo)])>>]
            ELSE [rpc |-> "done", result |-> <<Err(LocationNotFound)>>, start |-> <<>>]

\* resolve_location, and resolve_zip_location up to its fetch: the next
\* rpc, what is returned, and the fetch to start.
ResolveLocation(zip, lat, lon) ==
    IF zip # <<>>
    THEN IF ~ZipIsValid(zip[1])
         THEN [rpc |-> "done", result |-> <<Err(InvalidZip(zip[1]))>>, start |-> <<>>]
         ELSE [rpc |-> "geo", result |-> <<>>, start |-> <<GeoUrl(zip[1])>>]
    ELSE IF lat # <<>> /\ lon # <<>>
    THEN LET valid == validate_coordinates(lat[1], lon[1]) IN
         IF ~valid.ok
         THEN [rpc |-> "done", result |-> <<Err(valid.err[1])>>, start |-> <<>>]
         ELSE [rpc |-> "done", start |-> <<>>,
               result |-> <<Ok([lat |-> lat[1], lon |-> lon[1],
                                name |-> CoordinatesName(lat[1], lon[1])])>>]
    ELSE [rpc |-> "done", result |-> <<Err(LocationNotFound)>>, start |-> <<>>]

\* Mutant of AfterGeo: the last place of the response is taken.
AfterGeo_LastPlace(r) ==
    IF ~r.ok THEN Err(r.err[1])
    ELSE IF r.val[1].places = <<>> THEN Err(LocationNotFound)
    ELSE LET place == r.val[1].places[Len(r.val[1].places)]
             lat == ParseFloat(place.latitude)
             lon == ParseFloat(place.longitude)
         IN IF ~lat.ok THEN Err(lat.err[1])
            ELSE IF ~lon.ok THEN Err(lon.err[1])
            ELSE Ok([lat |-> lat.val[1], lon |-> lon.val[1],
                     name |-> place.place_name])

\* resolve_zip_location from the return of its fetch on.
AfterGeo(r) ==
    IF ~r.ok THEN Err(r.err[1])
    ELSE IF r.val[1].places = <<>> THEN Err(LocationNotFound)
    ELSE LET place == r.val[1].places[1]
             lat == ParseFloat(place.latitude)
             lon == ParseFloat(place.longitude)
         IN IF ~lat.ok THEN Err(lat.err[1])
            ELSE IF ~lon.ok THEN Err(lon.err[1])
            ELSE Ok([lat |-> lat.val[1], lon |-> lon.val[1],
                     name |-> place.place_name])

----------------------------------------------------------------------------
(* wait_for_network                                                        *)

\* for attempt in 1..=10, if attempt < 10
ProbeRounds == 10

\* sleep(Duration::from_millis(2000))
ProbeDelayMs == 2000

test_urls == <<"https://api.weather.gov", "https://8.8.8.8", "https://1.1.1.1">>

\* What tokio::time::timeout(3 s, client.head(url).send()) can end in: a
\* response of any status, a failed send, or the timeout.
ProbeOutcomes ==
    {[kind |-> "response", status |-> s] : s \in {200, 404, 503}}
    \cup {[kind |-> "error", status |-> 0], [kind |-> "timeout", status |-> 0]}

\* WeatherError::Api("Network connectivity check failed")
ConnectivityError ==
    [kind |-> "Api", cause |-> "Network connectivity check failed",
     status |-> 0, text |-> ""]

\* Mutant of GotResponse: only a 2xx response counts.
GotResponse_SuccessOnly(o) == o.kind = "response" /\ IsSuccess(o.status)

\* if let Ok(response) = timeout(..).await { if response.is_ok() { .. } }
GotResponse(o) == o.kind = "response"

\* Mutant of RoundsRemain: the delay is taken after the last round too.
RoundsRemain_OneMore(attempt) == attempt < ProbeRounds + 1

\* if attempt < 10
RoundsRemain(attempt) == attempt < ProbeRounds

\* The frame of wait_for_network when it is not running.  sent, sleeps and
\* last are history: the URLs probed, the delays taken, the latest outcome;
\* calls counts the calls of the function; agents is the set of User-Agent
\* headers the probes sent carried.
IdleProbe ==
    [state |-> "idle", attempt |-> 0, url |-> 0, delay |-> 0, result |-> <<>>,
     sent |-> <<>>, sleeps |-> <<>>, last |-> <<>>, calls |-> 0, agents |-> {}]

\* The call: the first round probes the first candidate.
StartProbe(p) ==
    [IdleProbe EXCEPT !.state = "probing", !.attempt = 1, !.url = 1,
                      !.sent = <<test_urls[1]>>, !.calls = p.calls + 1,
                      !.agents = {Request("HEAD", test_urls[1]).user_agent}]

\* The frame once the function has returned r.
ReturnProbe(p, r) ==
    [p EXCEPT !.state = "done", !.attempt = 0, !.url = 0, !.delay = 0,
              !.result = <<r>>]

\* From the outcome of a probe to the next await or the return: return
\* Ok(()), or probe the next candidate, or sleep, or leave the loop and fail.
HandleProbe(p, o) ==
    LET q == [p EXCEPT !.last = <<o>>] IN
    IF GotResponse(o)
    THEN ReturnProbe(q, Ok("unit"))
    ELSE IF p.url < Len(test_urls)
    THEN [q EXCEPT !.url = p.url + 1,
                   !.sent = Append(p.sent, test_urls[p.url + 1]),
                   !.agents = p.agents \cup
                       {Request("HEAD", test_urls[p.url + 1]).user_agent}]
    ELSE IF RoundsRemain(p.attempt)
    THEN [q EXCEPT !.state = "sleep", !.delay = ProbeDelayMs]
    ELSE ReturnProbe(q, Err(ConnectivityError))

\* The sleep ends: the next round probes the first candidate.
NextRound(p) ==
    [p EXCEPT !.state = "probing", !.attempt = p.attempt + 1, !.url = 1,
              !.delay = 0, !.sent = Append(p.sent, test_urls[1]),
              !.sleeps = Append(p.sleeps, p.delay),
              !.agents = p.agents \cup {Request("HEAD", test_urls[1]).user_agent}]

----------------------------------------------------------------------------
(* get_weather_icon, format_temperature, create_output.  A character that  *)
(* is not ASCII is written <U+hhhh> in a string.                           *)

\* The characters of the conditions of Periods and of OutputConditions, and
\* of the words get_weather_icon looks for.
Chars(s) ==
    CASE s = "Mostly Sunny" ->
            <<"M", "o", "s", "t", "l", "y", " ", "S", "u", "n", "n", "y">>
      [] s = "Snow" -> <<"S", "n", "o", "w">>
      [] s = "Cloudy" -> <<"C", "l", "o", "u", "d", "y">>
      [] s = "Mostly Cloudy" ->
            <<"M", "o", "s", "t", "l", "y", " ", "C", "l", "o", "u", "d", "y">>
      [] s = "Light Rain" -> <<"L", "i", "g", "h", "t", " ", "R", "a", "i", "n">>
      [] s = "Patchy Fog" -> <<"P", "a", "t", "c", "h", "y", " ", "F", "o", "g">>
      [] s = "sunny" -> <<"s", "u", "n", "n", "y">>
      [] s = "clear" -> <<"c", "l", "e", "a", "r">>
      [] s = "partly" -> <<"p", "a", "r", "t", "l", "y">>
      [] s = "mostly sunny" ->
            <<"m", "o", "s", "t", "l", "y", " ", "s", "u", "n", "n", "y">>
      [] s = "cloud" -> <<"c", "l", "o", "u", "d">>
      [] s = "overcast" -> <<"o", "v", "e", "r", "c", "a", "s", "t">>
      [] s = "thunder" -> <<"t", "h", "u", "n", "d", "e", "r">>
      [] s = "storm" -> <<"s", "t", "o", "r", "m">>
      [] s = "rain" -> <<"r", "a", "i", "n">>
      [] s = "showers" -> <<"s", "h", "o", "w", "e", "r", "s">>
      [] s = "light" -> <<"l", "i", "g", "h", "t">>
      [] s = "snow" -> <<"s", "n", "o", "w">>
      [] s = "fog" -> <<"f", "o", "g">>
      [] s = "mist" -> <<"m", "i", "s", "t">>
      [] s = "wind" -> <<"w", "i", "n", "d">>
      [] s = "hot" -> <<"h", "o", "t">>
      [] s = "cold" -> <<"c", "o", "l", "d">>

\* char::to_lowercase, for the capitals that occur in the conditions.
LowerChar(c) ==
    CASE c = "M" -> "m" [] c = "S" -> "s" [] c = "C" -> "c" [] c = "L" -> "l"
      [] c = "R" -> "r" [] c = "P" -> "p" [] c = "F" -> "f" [] OTHER -> c

\* str::to_lowercase
ToLowercase(s) == [i \in 1..Len(s) |-> LowerChar(s[i])]

\* str::contains(pattern), the pattern given as a string
Contains(s, pattern) ==
    LET p == Chars(pattern) IN
    \E i \in 0..(Len(s) - Len(p)) : SubSeq(s, i + 1, i + Len(p)) = p

\* The NerdFont branch of get_weather_icon (icons.rs keeps these glyphs in
\* a re-encoded form; they are named here by the comments of the source).
NerdFontIcon(c) ==
    IF Contains(c, "sunny") \/ Contains(c, "clear") THEN "nf-weather-day_sunny"
    ELSE IF Contains(c, "partly") THEN "nf-weather-day_cloudy"
    ELSE IF Contains(c, "mostly sunny") THEN "nf-weather-day_sunny_overcast"
    ELSE IF Contains(c, "cloud") \/ Contains(c, "overcast") THEN "nf-weather-cloudy"
    ELSE IF Contains(c, "thunder") \/ Contains(c, "storm")
    THEN "nf-weather-thunderstorm"
    ELSE IF Contains(c, "rain") \/ Contains(c, "showers")
    THEN IF Contains(c, "light") THEN "nf-weather-sprinkle" ELSE "nf-weather-rain"
    ELSE IF Contains(c, "snow")
    THEN IF Contains(c, "light") THEN "nf-weather-snow" ELSE "nf-weather-snow_heavy"
    ELSE IF Contains(c, "fog") \/ Contains(c, "mist") THEN "nf-weather-fog"
    ELSE IF Contains(c, "wind") THEN "nf-weather-strong_wind"
    ELSE IF Contains(c, "hot") THEN "nf-weather-hot"
    ELSE IF Contains(c, "cold") THEN "nf-weather-snowflake_cold"
    ELSE "nf-weather-na"

\* The Unicode, Emoji and Text branches test the same words in the same
\* order; rule is the number of the branch taken, 1 to 10.
IconRule(c) ==
    IF Contains(c, "sunny") \/ Contains(c, "clear") THEN 1
    ELSE IF Contains(c, "partly") THEN 2
    ELSE IF Contains(c, "mostly sunny") THEN 3
    ELSE IF Contains(c, "cloud") THEN 4
    ELSE IF Contains(c, "thunder") THEN 5
    ELSE IF Contains(c, "rain") \/ Contains(c, "showers") THEN 6
    ELSE IF Contains(c, "snow") THEN 7
    ELSE IF Contains(c, "fog") \/ Contains(c, "mist") THEN 8
    ELSE IF Contains(c, "wind") THEN 9
    ELSE 10

UnicodeIcons ==
    <<"<U+2600>", "<U+26C5>", "<U+1F324>", "<U+2601>", "<U+26C8>", "<U+1F327>",
      "<U+2744>", "<U+1F32B>", "<U+1F4A8>", "<U+1F321>">>

EmojiIcons ==
    <<"<U+2600><U+FE0F>", "<U+26C5>", "<U+1F324><U+FE0F>", "<U+2601><U+FE0F>",
      "<U+26C8><U+FE0F>", "<U+1F327><U+FE0F>", "<U+2744><U+FE0F>",
      "<U+1F32B><U+FE0F>", "<U+1F4A8>", "<U+1F321><U+FE0F>">>

TextIcons ==
    <<"SUN", "P.CLY", "M.SUN", "CLDY", "THRM", "RAIN", "SNOW", "FOG", "WIND", "WX">>

\* get_weather_icon(condition, icon_set)
get_weather_icon(condition, icon_set) ==
    LET condition_lower == ToLowercase(Chars(condition)) IN
    CASE icon_set = "NerdFont" -> NerdFontIcon(condition_lower)
      [] icon_set = "Unicode" -> UnicodeIcons[IconRule(condition_lower)]
      [] icon_set = "Emoji" -> EmojiIcons[IconRule(condition_lower)]
      [] icon_set = "Text" -> TextIcons[IconRule(condition_lower)]

\* f64::round of n / d for d > 0: the nearest integer, halves away from
\* zero.
RoundDiv(n, d) ==
    IF n >= 0 THEN (2 * n + d) \div (2 * d) ELSE -((d - 2 * n) \div (2 * d))

\* format!("{:.0}", n / d) for n >= 0 and d > 0: the nearest integer, a
\* half going to the even one.
FixedZero(n, d) ==
    LET q == n \div d
        r == n % d
    IN ToString(IF 2 * r > d \/ (2 * r = d /\ q % 2 = 1) THEN q + 1 ELSE q)

\* format_temperature(temp_c, unit): (temp, unit)
format_temperature(temp_c, unit) ==
    IF unit = "Celsius"
    THEN <<temp_c, "<U+00B0>C">>
    ELSE <<RoundDiv(9 * temp_c, 5) + 32, "<U+00B0>F">>

\* format!("{}", x) of an f64 held in tenths
DisplayTenths(x) ==
    LET m == IF x < 0 THEN -x ELSE x IN
    (IF x < 0 THEN "-" ELSE "") \o ToString(m \div 10)
    \o (IF m % 10 = 0 THEN "" ELSE "." \o ToString(m % 10))

\* The detailed tooltip: its lines, joined with "\n".
DetailedTooltip(loc, weather, temp, unit) ==
    LET head == loc.name \o ": " \o weather.condition
                \o "\n" \o "Temperature: " \o ToString(temp) \o unit
        humidity == IF weather.humidity # <<>>
                    THEN "\n" \o "Humidity: "
                         \o FixedZero(weather.humidity[1], 10) \o "%"
                    ELSE ""
        mph == IF weather.wind_speed # <<>>
               THEN FixedZero(weather.wind_speed[1] * 2237, 10000)
               ELSE ""
        wind == IF weather.wind_speed # <<>>
                THEN IF weather.wind_direction # <<>>
                     THEN "\n" \o "Wind: " \o mph \o " mph from "
                          \o DisplayTenths(weather.wind_direction[1]) \o "<U+00B0>"
                     ELSE "\n" \o "Wind: " \o mph \o " mph"
                ELSE ""
    IN head \o humidity \o wind

\* What the program prints as one line: a plain string, or the JSON text
\* of an object, held as the object.
PlainLine(s) == [kind |-> "plain", text |-> s, json |-> <<>>]

JsonLine(object) == [kind |-> "json", text |-> "", json |-> <<object>>]

\* Mutant of create_output: the icon comes from a cache that the first call
\* empties, so a later call with the same inputs prints no icon.
create_output_ConsumesIcon(loc, weather, a) ==
    LET icon == IF outputs = <<>>
                THEN get_weather_icon(weather.condition, a.icons) ELSE ""
        tu == format_temperature(weather.temperature, a.unit)
        temp == tu[1]
        unit == tu[2]
    IN CASE a.format = "Plain" ->
              Ok(PlainLine(icon \o " " \o ToString(temp) \o unit \o "  "
                           \o weather.condition))
         [] a.format = "Json" ->
              Ok(JsonLine([location |-> loc.name, temperature |-> temp,
                           unit |-> unit, condition |-> weather.condition,
                           icon |-> icon, humidity |-> weather.humidity,
                           wind_speed |-> weather.wind_speed,
                           wind_direction |-> weather.wind_direction]))
         [] a.format = "Waybar" ->
              Ok(JsonLine([text |-> icon \o " " \o ToString(temp) \o unit,
                           tooltip |-> IF a.detailed
                                       THEN DetailedTooltip(loc, weather,
                                                            temp, unit)
                                       ELSE loc.name \o ": "
                                            \o weather.condition,
                           class |-> "weather"]))

\* create_output(location, weather, args)
create_output(loc, weather, a) ==
    LET icon == get_weather_icon(weather.condition, a.icons)
        tu == format_temperature(weather.temperature, a.unit)
        temp == tu[1]
        unit == tu[2]
    IN CASE a.format = "Plain" ->
              Ok(PlainLine(icon \o " " \o ToString(temp) \o unit \o "  "
                           \o weather.condition))
         [] a.format = "Json" ->
              Ok(JsonLine([location |-> loc.name, temperature |-> temp,
                           unit |-> unit, condition |-> weather.condition,
                           icon |-> icon, humidity |-> weather.humidity,
                           wind_speed |-> weather.wind_speed,
                           wind_direction |-> weather.wind_direction]))
         [] a.format = "Waybar" ->
              Ok(JsonLine([text |-> icon \o " " \o ToString(temp) \o unit,
                           tooltip |-> IF a.detailed
                                       THEN DetailedTooltip(loc, weather,
                                                            temp, unit)
                                       ELSE loc.name \o ": "
                                            \o weather.condition,
                           class |-> "weather"]))

\* StatusCode's Display: the code and its canonical reason.
DisplayStatus(status) ==
    CASE status = 404 -> "404 Not Found"
      [] status = 503 -> "503 Service Unavailable"
      [] OTHER -> ToString(status)

\* WeatherError's Display (the #[error] attributes of error.rs).
DisplayError(e) ==
    CASE e.kind = "Network" -> "Network error: " \o e.cause
      [] e.kind = "Parse" ->
            "Number parsing error: "
            \o (IF e.cause = "empty" THEN "cannot parse float from empty string"
                ELSE "invalid float literal")
      [] e.kind = "InvalidZip" -> "Invalid ZIP code: " \o e.text
      [] e.kind = "LocationNotFound" -> "Location not found"
      [] e.kind = "NoWeatherData" -> "No weather data available"
      [] e.kind = "Api" ->
            "API error: "
            \o (IF e.cause = "HTTP"
                THEN "HTTP " \o DisplayStatus(e.status) \o ": " \o e.text
                ELSE e.cause)
      [] e.kind = "InvalidCoordinates" ->
            "Invalid coordinates: lat must be between -90 and 90, lon between -180 and 180"

----------------------------------------------------------------------------
(* The program state outside the fetch pipeline                            *)

\* Args with nothing given: the defaults of config.rs.
DefaultArgs ==
    [zip |-> <<>>, lat |-> <<>>, lon |-> <<>>, unit |-> "Fahrenheit",
     icons |-> "NerdFont", detailed |-> FALSE, wait_for_network |-> FALSE,
     format |-> "Waybar"]

\* The delay run_weather_app of lib.rs starts with when the prober is off.
INITIAL_DELAY_MS == 3000

\* No program is running: prog is which run_weather_app runs ("lib" for
\* lib.rs, "main" for the binary of main.rs), pos is its position, delay
\* the sleep it is in.
IdleApp == [prog |-> "none", pos |-> "idle", delay |-> 0]

\* The variables of a function that is not in use.
IdleResolve == rpc = "idle" /\ geo_result = <<>> /\ resolve_result = <<>>

IdleProgram ==
    /\ app = IdleApp
    /\ run_result = <<>>
    /\ stdout = <<>>
    /\ stderr = <<>>
    /\ exit_code = <<>>

----------------------------------------------------------------------------
(* get_weather_data on its own, for a given Location                       *)

Init ==
    /\ pc = "start"
    /\ location \in Locations
    /\ task = [t \in Tasks |-> IdleFrame]
    /\ calls = [t \in Tasks |-> 0]
    /\ point_result = <<>>
    /\ forecast_result = <<>>
    /\ stations_result = <<>>
    /\ obs_result = <<>>
    /\ weather_data = <<>>
    /\ outcome = <<>>
    /\ args = DefaultArgs
    /\ IdleResolve
    /\ probe = IdleProbe
    /\ IdleProgram
    /\ client = NewClient
    /\ outputs = <<>>

\* get_weather_data is called: the grid lookup starts.
CallGetWeatherData ==
    /\ UNCHANGED <<resolveVars, progVars>>
    /\ pc = "start"
    /\ pc' = "grid"
    /\ task' = [task EXCEPT !["grid"] = StartRetry(PointUrl(location))]
    /\ calls' = [calls EXCEPT !["grid"] = @ + 1]
    /\ UNCHANGED <<location, point_result, forecast_result, stations_result,
                   obs_result, weather_data, outcome>>

\* Mutant of Respond: the two stage-2 fetches count their attempts in one
\* shared counter, so a failure of one also uses up an attempt of the other.
Respond_SharedAttempts(t, resp) ==
    /\ UNCHANGED <<resolveVars, progVars>>
    /\ task[t].state = "inflight"
    /\ task' = [u \in Tasks |->
                  IF u = t THEN HandleResponse(task[t], resp)
                  ELSE IF /\ {t, u} = Stage2Tasks
                          /\ ~AttemptSucceeds(resp)
                          /\ task[u].state \in {"inflight", "sleep"}
                          /\ task[u].attempt < MaxRetries
                  THEN [task[u] EXCEPT !.attempt = @ + 1]
                  ELSE task[u]]
    /\ UNCHANGED <<pc, location, calls, point_result, forecast_result,
                   stations_result, obs_result, weather_data, outcome>>

\* A request of fetch t is answered.
Respond(t, resp) ==
    /\ UNCHANGED <<resolveVars, progVars>>
    /\ task[t].state = "inflight"
    /\ task' = [task EXCEPT ![t] = HandleResponse(task[t], resp)]
    /\ UNCHANGED <<pc, location, calls, point_result, forecast_result,
                   stations_result, obs_result, weather_data, outcome>>

\* The backoff sleep of fetch t ends.
Wake(t) ==
    /\ UNCHANGED <<resolveVars, progVars>>
    /\ task[t].state = "sleep"
    /\ task' = [task EXCEPT ![t] = NextAttempt(task[t])]
    /\ UNCHANGED <<pc, location, calls, point_result, forecast_result,
                   stations_result, obs_result, weather_data, outcome>>

\* Mutant of AfterGrid: the error of the grid lookup is replaced by one of
\* get_weather_data's own (map_err(|_| WeatherError::Api(..))).
AfterGrid_WrapsError(pr) ==
    IF pr.ok
    THEN [pc |-> "stage2", outcome |-> <<>>,
          start |-> <<ForecastUrl(pr.val[1]), StationsUrl(pr.val[1])>>]
    ELSE [pc |-> "done", start |-> <<>>,
          outcome |-> <<Err([kind |-> "Api", cause |-> "Grid lookup failed",
                             status |-> 0, text |-> ""])>>]

\* Mutant of AfterGrid: a failed grid lookup is replaced by an empty grid
\* reference (unwrap_or_default) and stage 2 starts all the same.
AfterGrid_IgnoresError(pr) ==
    LET point == IF pr.ok THEN pr.val[1]
                 ELSE [grid_id |-> "", grid_x |-> 0, grid_y |-> 0,
                       observation_stations |-> ""]
    IN [pc |-> "stage2", outcome |-> <<>>,
        start |-> <<ForecastUrl(point), StationsUrl(point)>>]

\* let nws_point: NWSPointResponse = self.get_with_retry(&point_url).await?;
\* the next pc, what is returned, and the fetches to start.
AfterGrid(pr) ==
    IF pr.ok
    THEN [pc |-> "stage2", outcome |-> <<>>,
          start |-> <<ForecastUrl(pr.val[1]), StationsUrl(pr.val[1])>>]
    ELSE [pc |-> "done", outcome |-> <<Err(pr.err[1])>>, start |-> <<>>]

\* The grid lookup returns; on Ok, join! polls both stage-2 fetches, which
\* sends the first request of each.
GridReturns ==
    /\ UNCHANGED <<resolveVars, progVars>>
    /\ pc = "grid"
    /\ Returned("grid")
    /\ LET pr == task["grid"].result[1]
           next == AfterGrid(pr)
       IN /\ point_result' = <<pr>>
          /\ pc' = next.pc
          /\ outcome' = next.outcome
          /\ task' = [task EXCEPT
                        !["grid"] = IdleFrame,
                        !["forecast"] = IF next.start # <<>>
                                        THEN StartRetry(next.start[1]) ELSE @,
                        !["stations"] = IF next.start # <<>>
                                        THEN StartRetry(next.start[2]) ELSE @]
          /\ calls' = [calls EXCEPT
                        !["forecast"] = IF next.start # <<>> THEN @ + 1 ELSE @,
                        !["stations"] = IF next.start # <<>> THEN @ + 1 ELSE @]
    /\ UNCHANGED <<location, forecast_result, stations_result, obs_result,
                   weather_data>>

\* Mutant of AfterJoin: a failed station-list fetch is tolerated, the
\* forecast alone gives the result.
AfterJoin_ForecastOnly(fr, sr) ==
    IF ~fr.ok
    THEN [pc |-> "done", outcome |-> <<Err(fr.err[1])>>, wd |-> <<>>, start |-> <<>>]
    ELSE IF fr.val[1].periods = <<>>
    THEN [pc |-> "done", outcome |-> <<Err(NoWeatherData)>>, wd |-> <<>>,
          start |-> <<>>]
    ELSE LET wd == Baseline(fr.val[1].periods[1]) IN
         IF sr.ok /\ sr.val[1].features # <<>>
         THEN [pc |-> "obs", outcome |-> <<>>, wd |-> <<wd>>,
               start |-> <<ObservationUrl(sr.val[1].features[1])>>]
         ELSE [pc |-> "done", outcome |-> <<Ok(wd)>>, wd |-> <<wd>>, start |-> <<>>]

\* Mutant of AfterJoin: the empty period list is looked at before the
\* station-list result.
AfterJoin_PeriodsFirst(fr, sr) ==
    IF ~fr.ok
    THEN [pc |-> "done", outcome |-> <<Err(fr.err[1])>>, wd |-> <<>>, start |-> <<>>]
    ELSE IF fr.val[1].periods = <<>>
    THEN [pc |-> "done", outcome |-> <<Err(NoWeatherData)>>, wd |-> <<>>,
          start |-> <<>>]
    ELSE IF ~sr.ok
    THEN [pc |-> "done", outcome |-> <<Err(sr.err[1])>>, wd |-> <<>>, start |-> <<>>]
    ELSE LET wd == Baseline(fr.val[1].periods[1]) IN
         IF sr.val[1].features # <<>>
         THEN [pc |-> "obs", outcome |-> <<>>, wd |-> <<wd>>,
               start |-> <<ObservationUrl(sr.val[1].features[1])>>]
         ELSE [pc |-> "done", outcome |-> <<Ok(wd)>>, wd |-> <<wd>>, start |-> <<>>]

\* Mutant of AfterJoin: the observation is asked of the last station of the
\* list (stations.features.last()).
AfterJoin_LastStation(fr, sr) ==
    IF ~fr.ok
    THEN [pc |-> "done", outcome |-> <<Err(fr.err[1])>>, wd |-> <<>>, start |-> <<>>]
    ELSE IF ~sr.ok
    THEN [pc |-> "done", outcome |-> <<Err(sr.err[1])>>, wd |-> <<>>, start |-> <<>>]
    ELSE IF fr.val[1].periods = <<>>
    THEN [pc |-> "done", outcome |-> <<Err(NoWeatherData)>>, wd |-> <<>>,
          start |-> <<>>]
    ELSE LET wd == Baseline(fr.val[1].periods[1])
             features == sr.val[1].features
         IN IF features # <<>>
            THEN [pc |-> "obs", outcome |-> <<>>, wd |-> <<wd>>,
                  start |-> <<ObservationUrl(features[Len(features)])>>]
            ELSE [pc |-> "done", outcome |-> <<Ok(wd)>>, wd |-> <<wd>>,
                  start |-> <<>>]

\* What get_weather_data does once join! has both results, up to the
\* observation fetch: the next pc, what is returned, weather_data, and the
\* fetch to start.
AfterJoin(fr, sr) ==
    IF ~fr.ok
    THEN [pc |-> "done", outcome |-> <<Err(fr.err[1])>>, wd |-> <<>>, start |-> <<>>]
    ELSE IF ~sr.ok
    THEN [pc |-> "done", outcome |-> <<Err(sr.err[1])>>, wd |-> <<>>, start |-> <<>>]
    ELSE IF fr.val[1].periods = <<>>
    THEN [pc |-> "done", outcome |-> <<Err(NoWeatherData)>>, wd |-> <<>>,
          start |-> <<>>]
    ELSE LET wd == Baseline(fr.val[1].periods[1]) IN
         IF sr.val[1].features # <<>>
         THEN [pc |-> "obs", outcome |-> <<>>, wd |-> <<wd>>,
               start |-> <<ObservationUrl(sr.val[1].features[1])>>]
         ELSE [pc |-> "done", outcome |-> <<Ok(wd)>>, wd |-> <<wd>>, start |-> <<>>]

\* tokio::join! completes when both fetches have returned.
JoinReturns ==
    /\ UNCHANGED <<resolveVars, progVars>>
    /\ pc = "stage2"
    /\ Returned("forecast")
    /\ Returned("stations")
    /\ LET fr == task["forecast"].result[1]
           sr == task["stations"].result[1]
           next == AfterJoin(fr, sr)
       IN /\ forecast_result' = <<fr>>
          /\ stations_result' = <<sr>>
          /\ pc' = next.pc
          /\ outcome' = next.outcome
          /\ weather_data' = next.wd
          /\ task' = [task EXCEPT
                        !["forecast"] = IdleFrame,
                        !["stations"] = IdleFrame,
                        !["obs"] = IF next.start # <<>>
                                   THEN StartRetry(next.start[1]) ELSE @]
          /\ calls' = [calls EXCEPT
                        !["obs"] = IF next.start # <<>> THEN @ + 1 ELSE @]
    /\ UNCHANGED <<location, point_result, obs_result>>

\* Mutant of AfterObservation: the error of the observation fetch is
\* returned (get_current_observation(..).await?).
AfterObservation_Propagates(wd, obs_res) ==
    IF obs_res.ok THEN Ok(Merge(wd, obs_res)) ELSE Err(obs_res.err[1])

\* What get_weather_data returns once get_current_observation has: the
\* error of the observation fetch is dropped.
AfterObservation(wd, obs_res) == Ok(Merge(wd, obs_res))

\* get_current_observation returns.
ObservationReturns ==
    /\ UNCHANGED <<resolveVars, progVars>>
    /\ pc = "obs"
    /\ Returned("obs")
    /\ LET r == task["obs"].result[1]
           ret == AfterObservation(weather_data[1], r)
       IN /\ obs_result' = <<r>>
          /\ weather_data' = IF ret.ok THEN ret.val ELSE weather_data
          /\ outcome' = <<ret>>
    /\ pc' = "done"
    /\ task' = [task EXCEPT !["obs"] = IdleFrame]
    /\ UNCHANGED <<location, calls, point_result, forecast_result, stations_result>>

Next ==
    \/ CallGetWeatherData
    \/ \E t \in Tasks :
          /\ task[t].state = "inflight"
          /\ \E resp \in Responses(t) : Respond(t, resp)
    \/ \E t \in Tasks : Wake(t)
    \/ GridReturns
    \/ JoinReturns
    \/ ObservationReturns

Spec == Init /\ [][Next]_vars

----------------------------------------------------------------------------
(* resolve_location on its own, for given arguments                        *)

\* What resolve_location does not touch.
weatherVars == <<pc, location, point_result, forecast_result, stations_result,
                 obs_result, weather_data, outcome>>

\* The location variable while no Location has been resolved.
NoLocation == [lat |-> 0, lon |-> 0, name |-> ""]

\* get_weather_data is not in use.
IdleWeather ==
    /\ pc = "idle"
    /\ location = NoLocation
    /\ task = [t \in Tasks |-> IdleFrame]
    /\ calls = [t \in Tasks |-> 0]
    /\ point_result = <<>>
    /\ forecast_result = <<>>
    /\ stations_result = <<>>
    /\ obs_result = <<>>
    /\ weather_data = <<>>
    /\ outcome = <<>>

\* Every combination of zip, lat and lon, given or not.
ResolveArgs ==
    { [DefaultArgs EXCEPT !.zip = z, !.lat = la, !.lon = lo] :
        z \in {<<>>} \cup {<<s>> : s \in ZipStrings},
        la \in OptLats, lo \in OptLons }

ResolveInit ==
    /\ IdleWeather
    /\ args \in ResolveArgs
    /\ rpc = "start"
    /\ geo_result = <<>>
    /\ resolve_result = <<>>
    /\ probe = IdleProbe
    /\ IdleProgram
    /\ client = NewClient
    /\ outputs = <<>>

\* resolve_location is called with the zip, lat and lon of args: it
\* returns at once, or the geocoding fetch starts.
CallResolveLocation ==
    /\ rpc = "start"
    /\ LET next == ResolveLocation(args.zip, args.lat, args.lon)
       IN /\ rpc' = next.rpc
          /\ resolve_result' = next.result
          /\ task' = [task EXCEPT
                        !["geo"] = IF next.start # <<>>
                                   THEN StartRetry(next.start[1]) ELSE @]
          /\ calls' = [calls EXCEPT
                        !["geo"] = IF next.start # <<>> THEN @ + 1 ELSE @]
    /\ UNCHANGED <<weatherVars, geo_result, progVars>>

\* The geocoding fetch returns, and with it resolve_location.
GeoReturns ==
    /\ rpc = "geo"
    /\ Returned("geo")
    /\ geo_result' = task["geo"].result
    /\ resolve_result' = <<AfterGeo(task["geo"].result[1])>>
    /\ rpc' = "done"
    /\ task' = [task EXCEPT !["geo"] = IdleFrame]
    /\ UNCHANGED <<weatherVars, calls, progVars>>

ResolveNext ==
    \/ CallResolveLocation
    \/ \E t \in Tasks :
          /\ task[t].state = "inflight"
          /\ \E resp \in Responses(t) : Respond(t, resp)
    \/ \E t \in Tasks : Wake(t)
    \/ GeoReturns

ResolveSpec == ResolveInit /\ [][ResolveNext]_vars

----------------------------------------------------------------------------
(* wait_for_network on its own                                             *)

\* What wait_for_network does not touch.
notProbeVars == <<weatherVars, task, calls, resolveVars, args, app, run_result,
                  stdout, stderr, exit_code, client, outputs>>

ProbeInit ==
    /\ IdleWeather
    /\ args = [DefaultArgs EXCEPT !.wait_for_network = TRUE]
    /\ IdleResolve
    /\ probe = [IdleProbe EXCEPT !.state = "start"]
    /\ IdleProgram
    /\ client = NewClient
    /\ outputs = <<>>

\* wait_for_network is called: the first probe is sent.
CallWaitForNetwork ==
    /\ probe.state = "start"
    /\ probe' = StartProbe(probe)
    /\ UNCHANGED notProbeVars

\* The probe that is out ends in outcome o.
ProbeAnswered(o) ==
    /\ probe.state = "probing"
    /\ probe' = HandleProbe(probe, o)
    /\ UNCHANGED notProbeVars

\* The delay between two rounds ends.
ProbeWake ==
    /\ probe.state = "sleep"
    /\ probe' = NextRound(probe)
    /\ UNCHANGED notProbeVars

ProbeNext ==
    \/ CallWaitForNetwork
    \/ \E o \in ProbeOutcomes : ProbeAnswered(o)
    \/ ProbeWake

ProbeSpec == ProbeInit /\ [][ProbeNext]_vars

----------------------------------------------------------------------------
(* run_weather_app of lib.rs: the prober or the initial delay, then        *)
(* resolve_location, get_weather_data and create_output.  Each function    *)
(* is entered and left in a step of its own.                               *)

\* The remote services of a whole run: per fetch a failed send, a 503, or
\* one of a few payloads.
AppPayloads(t) ==
    CASE t = "geo" ->
            {p \in Payloads(t) :
                /\ Len(p.places) <= 1
                /\ \A i \in 1..Len(p.places) : p.places[i].place_name = "Beverly Hills"}
      [] t = "grid" -> {p \in Payloads(t) : p.grid_id = "LOX"}
      [] t = "forecast" ->
            {p \in Payloads(t) :
                /\ Len(p.periods) <= 1
                /\ \A i \in 1..Len(p.periods) : p.periods[i].short_forecast = "Snow"}
      [] t = "stations" ->
            {p \in Payloads(t) :
                /\ Len(p.features) <= 1
                /\ \A i \in 1..Len(p.features) : p.features[i] = "KLAX"}
      [] t = "obs" ->
            {p \in Payloads(t) :
                \/ /\ p.temperature.value = <<194>>
                   /\ AndThenValue(p.relative_humidity) # <<>>
                   /\ AndThenValue(p.wind_speed) # <<>>
                   /\ AndThenValue(p.wind_direction) # <<>>
                \/ /\ p.temperature.value = <<>>
                   /\ p.relative_humidity = <<>>
                   /\ p.wind_speed = <<>>
                   /\ p.wind_direction = <<>>}

AppResponses(t) ==
    {r \in Responses(t) :
        \/ ~r.sent
        \/ r.status = 503
        \/ (r.json # <<>> /\ r.json[1] \in AppPayloads(t))}

\* The arguments of a whole run: a ZIP, a coordinate pair or nothing, in
\* three settings of the output.
AppArgs ==
    { [DefaultArgs EXCEPT !.zip = w[1], !.lat = w[2], !.lon = w[3],
                          !.format = o[1], !.icons = o[2], !.unit = o[3],
                          !.detailed = o[4], !.wait_for_network = n] :
        w \in { << << <<"9", "9", "9", "9", "9">> >>, <<>>, <<>> >>,
                << <<>>, <<3405>>, <<-11824>> >>,
                << <<>>, <<>>, <<>> >> },
        o \in { <<"Waybar", "NerdFont", "Fahrenheit", TRUE>>,
                <<"Plain", "Text", "Celsius", FALSE>>,
                <<"Json", "Emoji", "Fahrenheit", FALSE>> },
        n \in BOOLEAN }

AppInit ==
    /\ IdleWeather
    /\ args \in AppArgs
    /\ IdleResolve
    /\ probe = IdleProbe
    /\ app = [IdleApp EXCEPT !.prog = "lib", !.pos = "start"]
    /\ run_result = <<>>
    /\ stdout = <<>>
    /\ stderr = <<>>
    /\ exit_code = <<>>
    /\ client = NewClient
    /\ outputs = <<>>

\* run_weather_app is called: the prober is called, or the initial delay
\* starts.
CallRunWeatherApp ==
    /\ app.prog = "lib"
    /\ app.pos = "start"
    /\ IF args.wait_for_network
       THEN /\ app' = [app EXCEPT !.pos = "probe"]
            /\ probe' = [probe EXCEPT !.state = "start"]
       ELSE /\ app' = [app EXCEPT !.pos = "delay", !.delay = INITIAL_DELAY_MS]
            /\ UNCHANGED probe
    /\ UNCHANGED <<weatherVars, task, calls, resolveVars, args, client, outputs, run_result,
                   stdout, stderr, exit_code>>

\* Mutant of AfterProbe: the result of the prober is dropped
\* (let _ = client.wait_for_network().await).
AfterProbe_IgnoresError(r) ==
    [pos |-> "resolve", run_result |-> <<>>]

\* client.wait_for_network().await?: the next position and what is
\* returned.
AfterProbe(r) ==
    IF r.ok
    THEN [pos |-> "resolve", run_result |-> <<>>]
    ELSE [pos |-> "returned", run_result |-> <<Err(r.err[1])>>]

\* wait_for_network returns; on Ok resolve_location is called.
ProbeReturns ==
    /\ app.pos = "probe"
    /\ probe.state = "done"
    /\ LET next == AfterProbe(probe.result[1])
       IN /\ app' = [app EXCEPT !.pos = next.pos]
          /\ run_result' = next.run_result
          /\ rpc' = IF next.pos = "resolve" THEN "start" ELSE rpc
    /\ probe' = [IdleProbe EXCEPT !.calls = probe.calls, !.result = probe.result]
    /\ UNCHANGED <<weatherVars, task, calls, geo_result, resolve_result, args, client, outputs,
                   stdout, stderr, exit_code>>

\* The initial delay ends: resolve_location is called.
DelayEnds ==
    /\ app.pos = "delay"
    /\ app' = [app EXCEPT !.pos = "resolve", !.delay = 0]
    /\ rpc' = "start"
    /\ UNCHANGED <<weatherVars, task, calls, geo_result, resolve_result, args, client, outputs,
                   probe, run_result, stdout, stderr, exit_code>>

\* let location = client.resolve_location(..).await?: on Ok
\* get_weather_data is called with the location.
ResolveReturns ==
    /\ app.pos = "resolve"
    /\ rpc = "done"
    /\ LET r == resolve_result[1]
       IN IF r.ok
          THEN /\ location' = r.val[1]
               /\ pc' = "start"
               /\ app' = [app EXCEPT !.pos = "weather"]
               /\ UNCHANGED run_result
          ELSE /\ run_result' = <<Err(r.err[1])>>
               /\ app' = [app EXCEPT !.pos = "returned"]
               /\ UNCHANGED <<location, pc>>
    /\ UNCHANGED <<task, calls, point_result, forecast_result, stations_result,
                   obs_result, weather_data, outcome, resolveVars, args, client, outputs, probe,
                   stdout, stderr, exit_code>>

\* let weather = client.get_weather_data(&location).await?; then
\* create_output, whose result run_weather_app returns.
WeatherReturns ==
    /\ app.pos = "weather"
    /\ pc = "done"
    /\ run_result' = IF outcome[1].ok
                     THEN <<create_output(location, outcome[1].val[1], args)>>
                     ELSE <<Err(outcome[1].err[1])>>
    /\ app' = [app EXCEPT !.pos = "returned"]
    /\ UNCHANGED <<weatherVars, task, calls, resolveVars, args, client, outputs, probe,
                   stdout, stderr, exit_code>>

\* The steps of the functions run_weather_app calls.
PipelineNext ==
    \/ CallResolveLocation
    \/ GeoReturns
    \/ CallGetWeatherData
    \/ GridReturns
    \/ JoinReturns
    \/ ObservationReturns
    \/ \E t \in Tasks :
          /\ task[t].state = "inflight"
          /\ \E resp \in AppResponses(t) : Respond(t, resp)
    \/ \E t \in Tasks : Wake(t)
    \/ ResolveReturns
    \/ WeatherReturns

AppNext ==
    \/ CallRunWeatherApp
    \/ CallWaitForNetwork
    \/ \E o \in ProbeOutcomes : ProbeAnswered(o)
    \/ ProbeWake
    \/ ProbeReturns
    \/ DelayEnds
    \/ PipelineNext

AppSpec == AppInit /\ [][AppNext]_vars

\* What keeps a run going: every attempt of every fetch is answered or cut
\* off by the client's timeout (.timeout(REQUEST_TIMEOUT)), every probe by
\* tokio::time::timeout, every sleep ends, and the program itself takes
\* its next step (the runtime polls a future that can make progress).
AppFairness ==
    /\ \A t \in Tasks :
          WF_vars(/\ task[t].state = "inflight"
                  /\ \E resp \in AppResponses(t) : Respond(t, resp))
    /\ \A t \in Tasks : WF_vars(Wake(t))
    /\ WF_vars(\E o \in ProbeOutcomes : ProbeAnswered(o))
    /\ WF_vars(ProbeWake)
    /\ WF_vars(\/ CallRunWeatherApp \/ CallWaitForNetwork \/ ProbeReturns
               \/ DelayEnds \/ CallResolveLocation \/ GeoReturns
               \/ CallGetWeatherData \/ GridReturns \/ JoinReturns
               \/ ObservationReturns \/ ResolveReturns \/ WeatherReturns)

AppFairSpec == AppInit /\ [][AppNext]_vars /\ AppFairness

----------------------------------------------------------------------------
(* main of main.rs.  main.rs carries its own copy of the client, which is  *)
(* the text of client.rs from get_with_retry on but for MAX_RETRIES and    *)
(* RETRY_DELAY_MS, and its own run_weather_app, which has neither prober   *)
(* nor initial delay.                                                      *)

\* What Args::parse() can hand to main: a ZIP (well-formed or not), a
\* coordinate pair, or no place at all, in three settings of the output.
MainArgs ==
    { [DefaultArgs EXCEPT !.zip = w[1], !.lat = w[2], !.lon = w[3],
                          !.format = o[1], !.icons = o[2], !.unit = o[3],
                          !.detailed = o[4]] :
        w \in { << << <<"9", "9", "9", "9", "9">> >>, <<>>, <<>> >>,
                << << <<"9", "9", "9", "9", "x">> >>, <<>>, <<>> >>,
                << <<>>, <<3405>>, <<-11824>> >>,
                << <<>>, <<>>, <<>> >> },
        o \in { <<"Waybar", "NerdFont", "Fahrenheit", TRUE>>,
                <<"Plain", "Text", "Celsius", FALSE>>,
                <<"Json", "Emoji", "Fahrenheit", FALSE>> } }

MainInit ==
    /\ IdleWeather
    /\ args \in MainArgs
    /\ IdleResolve
    /\ probe = IdleProbe
    /\ app = [IdleApp EXCEPT !.prog = "main", !.pos = "start"]
    /\ run_result = <<>>
    /\ stdout = <<>>
    /\ stderr = <<>>
    /\ exit_code = <<>>
    /\ client = MainNewClient
    /\ outputs = <<>>

\* if args.zip.is_none() && (args.lat.is_none() || args.lon.is_none())
InputMissing(a) == a.zip = <<>> /\ (a.lat = <<>> \/ a.lon = <<>>)

\* The WaybarOutput main prints when the run has failed with e.
Fallback(e) ==
    JsonLine([text |-> "Weather Error",
              tooltip |-> "Failed to get weather data: " \o DisplayError(e),
              class |-> "weather-error"])

\* main starts: the input is validated, and the process exits or
\* run_weather_app is called, which calls resolve_location.
MainStarts ==
    /\ app.prog = "main"
    /\ app.pos = "start"
    /\ IF InputMissing(args)
       THEN /\ stderr' = Append(stderr,
                   "Error: You must provide either --zip ZIPCODE or --lat LAT --lon LON")
            /\ exit_code' = <<1>>
            /\ app' = [app EXCEPT !.pos = "exited"]
            /\ UNCHANGED rpc
       ELSE /\ app' = [app EXCEPT !.pos = "resolve"]
            /\ rpc' = "start"
            /\ UNCHANGED <<stderr, exit_code>>
    /\ UNCHANGED <<weatherVars, task, calls, geo_result, resolve_result, args, client, outputs,
                   probe, run_result, stdout>>

\* Mutant of ExitStatus: main returns Ok(()) in the Err arm too.
ExitStatus_AlwaysZero(r) == 0

\* The exit status once run_weather_app has returned r: main returns
\* Ok(()) after the Ok arm, and calls std::process::exit(1) in the Err arm.
ExitStatus(r) == IF r.ok THEN 0 ELSE 1

\* run_weather_app has returned: main prints and the process exits.
MainFinishes ==
    /\ app.prog = "main"
    /\ app.pos = "returned"
    /\ LET r == run_result[1]
       IN /\ IF r.ok
             THEN /\ stdout' = Append(stdout, r.val[1])
                  /\ UNCHANGED stderr
             ELSE /\ stderr' = Append(stderr, "Error: " \o DisplayError(r.err[1]))
                  /\ stdout' = IF args.format = "Waybar"
                               THEN Append(stdout, Fallback(r.err[1]))
                               ELSE stdout
          /\ exit_code' = <<ExitStatus(r)>>
    /\ app' = [app EXCEPT !.pos = "exited"]
    /\ UNCHANGED <<weatherVars, task, calls, resolveVars, args, client, outputs, probe, run_result>>

MainNext ==
    \/ MainStarts
    \/ PipelineNext
    \/ MainFinishes

MainSpec == MainInit /\ [][MainNext]_vars

----------------------------------------------------------------------------
(* create_output on its own: the formatter is called again and again with  *)
(* one (location, weather, args).                                          *)

\* The number of calls of create_output that are followed.
MaxCalls == 2

OutputConditions ==
    {"Mostly Sunny", "Snow", "Cloudy", "Mostly Cloudy", "Light Rain", "Patchy Fog"}

\* WeatherData values: with and without the observation fields.
OutputWeathers ==
    { [temperature |-> t, condition |-> c, humidity |-> h, wind_speed |-> ws,
       wind_direction |-> wd] :
        t \in {-5, 20}, c \in OutputConditions, h \in {<<>>, <<655>>},
        ws \in {<<>>, <<36>>}, wd \in {<<>>, <<2700>>} }

\* Every setting of the output options.
OutputArgs ==
    { [DefaultArgs EXCEPT !.format = f, !.icons = i, !.unit = u, !.detailed = d] :
        f \in {"Waybar", "Plain", "Json"},
        i \in {"NerdFont", "Unicode", "Emoji", "Text"},
        u \in {"Fahrenheit", "Celsius"}, d \in BOOLEAN }

OutputInit ==
    /\ pc = "idle"
    /\ location \in Locations
    /\ task = [t \in Tasks |-> IdleFrame]
    /\ calls = [t \in Tasks |-> 0]
    /\ point_result = <<>>
    /\ forecast_result = <<>>
    /\ stations_result = <<>>
    /\ obs_result = <<>>
    /\ weather_data \in {<<w>> : w \in OutputWeathers}
    /\ outcome = <<>>
    /\ args \in OutputArgs
    /\ IdleResolve
    /\ probe = IdleProbe
    /\ IdleProgram
    /\ client = NewClient
    /\ outputs = <<>>

\* create_output(&location, &weather, &args) is called: it returns its
\* Result; the three arguments are shared borrows.
CallCreateOutput ==
    /\ Len(outputs) < MaxCalls
    /\ outputs' = Append(outputs, create_output(location, weather_data[1], args))
    /\ UNCHANGED <<weatherVars, task, calls, resolveVars, args, probe, app,
                   run_result, stdout, stderr, exit_code, client>>

OutputNext == CallCreateOutput

OutputSpec == OutputInit /\ [][OutputNext]_vars

----------------------------------------------------------------------------
(* Claims about get_with_retry                                              *)

\* An answer that is a 2xx response whose body decodes.
Decoded2xx(resp) ==
    resp.sent /\ resp.status \in 200..299 /\ resp.json # <<>>

\* The kind of failure of an answer that is not Decoded2xx.
FailureClass(resp) ==
    IF ~resp.sent THEN "transport"
    ELSE IF resp.status \in 200..299 THEN "decode" ELSE "status"

\* C1: when attempt N of a get_with_retry call is answered by a 2xx response
\* whose body decodes (the N-1 attempts before it having failed), the call
\* has returned Ok of that decoded value, N <= MAX_RETRIES, exactly N
\* requests were sent, N-1 backoff waits were taken and none is pending; and
\* a call returns Ok only in that way.
C1_FirstSuccessIsReturned ==
    \A t \in Tasks :
        LET f == task[t] IN
        /\ (f.last_resp # <<>> /\ Decoded2xx(f.last_resp[1])) =>
              /\ f.state = "done"
              /\ f.result[1].ok
              /\ f.result[1].val = f.last_resp[1].json
              /\ f.resps \in 1..MAX_RETRIES
              /\ f.reqs = f.resps
              /\ Len(f.waits) = f.resps - 1
              /\ f.delay = 0
        /\ (f.state = "done" /\ f.result[1].ok) =>
              f.last_resp # <<>> /\ Decoded2xx(f.last_resp[1])

\* C1 witness: a call returned Ok on its last allowed attempt, after
\* MAX_RETRIES - 1 failures.
C1_Witness ==
    \E t \in Tasks :
        /\ task[t].state = "done"
        /\ task[t].result[1].ok
        /\ task[t].resps = MAX_RETRIES

\* C2: when all MAX_RETRIES attempts of a call have failed, the call has
\* returned an error, and the error is the one of the answer to the last
\* attempt: Network for a failed send or an undecodable 2xx body, Api with
\* the status and body for a non-2xx response; never "Unknown error".
C2_LastErrorIsReturned ==
    \A t \in Tasks :
        LET f == task[t] IN
        /\ (f.resps = MAX_RETRIES /\ ~Decoded2xx(f.last_resp[1])) =>
              /\ f.state = "done"
              /\ ~f.result[1].ok
        /\ (f.state = "done" /\ ~f.result[1].ok) =>
              LET r == f.last_resp[1]
                  e == f.result[1].err[1]
              IN /\ f.resps = MAX_RETRIES
                 /\ f.reqs = MAX_RETRIES
                 /\ ~Decoded2xx(r)
                 /\ FailureClass(r) = "transport" => e = NetworkError("send")
                 /\ FailureClass(r) = "decode" => e = NetworkError("decode")
                 /\ FailureClass(r) = "status" =>
                        e = ApiHttpError(r.status, r.text)
                 /\ e # UnknownError

\* C2 witness: a call returned the Api error of a non-2xx answer to its
\* last attempt.
C2_Witness ==
    \E t \in Tasks :
        /\ task[t].state = "done"
        /\ ~task[t].result[1].ok
        /\ task[t].result[1].err[1].kind = "Api"
        /\ task[t].resps = MAX_RETRIES

\* C3: the wait taken after failed attempt k < MAX_RETRIES is
\* RETRY_DELAY_MS * k (2000, 4000, 6000, 8000 ms), attempt k+1 is sent only
\* after k waits, and a call that returned an error after MAX_RETRIES
\* attempts took MAX_RETRIES - 1 waits and none after the last attempt.
C3_LinearBackoff ==
    \A t \in Tasks :
        LET f == task[t] IN
        /\ \A k \in 1..Len(f.waits) : f.waits[k] = RETRY_DELAY_MS * k
        /\ f.state = "sleep" =>
              /\ f.attempt < MAX_RETRIES
              /\ f.resps = f.attempt
              /\ f.delay = RETRY_DELAY_MS * f.attempt
              /\ Len(f.waits) = f.attempt - 1
        /\ f.state = "inflight" => Len(f.waits) = f.attempt - 1
        /\ (f.state = "done" /\ ~f.result[1].ok) =>
              /\ Len(f.waits) = MAX_RETRIES - 1
              /\ f.delay = 0

\* C3 witness: a call failed after the waits 2000, 4000, 6000 and 8000 ms.
C3_Witness ==
    \E t \in Tasks :
        /\ task[t].state = "done"
        /\ ~task[t].result[1].ok
        /\ task[t].waits = <<2000, 4000, 6000, 8000>>

\* C4: the errors get_with_retry returns for a transport failure, a non-2xx
\* status and a decode failure of the last attempt are of three different
\* kinds: two calls that failed in different ways returned errors of
\* different kinds.
C4_FailureKindsDistinct ==
    \A t, u \in Tasks :
        LET f == task[t]
            g == task[u]
        IN (/\ f.state = "done" /\ ~f.result[1].ok
            /\ g.state = "done" /\ ~g.result[1].ok
            /\ FailureClass(f.last_resp[1]) # FailureClass(g.last_resp[1]))
           => f.result[1].err[1].kind # g.result[1].err[1].kind

----------------------------------------------------------------------------
(* Claims about get_weather_data                                            *)

Failed(res) == res # <<>> /\ ~res[1].ok

Succeeded(res) == res # <<>> /\ res[1].ok

\* Fetch t has sent a request or has been called at all.
Issued(t) == calls[t] > 0 \/ task[t].state # "idle" \/ task[t].reqs > 0

C6_JoinWaitsForBoth ==
    /\ (task["forecast"].state = "idle") <=> (task["stations"].state = "idle")
    /\ calls["forecast"] = calls["stations"]
    /\ pc = "stage2" =>
          /\ \A t \in Stage2Tasks : task[t].state \in {"inflight", "sleep", "done"}
          /\ forecast_result = <<>> /\ stations_result = <<>>
          /\ outcome = <<>> /\ weather_data = <<>>
          /\ ~Issued("obs")
    /\ \A t \in Stage2Tasks :
          (task[t].state = "done" /\ ~task[t].result[1].ok) =>
              task[t].reqs = MAX_RETRIES
    /\ (forecast_result # <<>>) <=> (stations_result # <<>>)
    /\ (Failed(forecast_result) \/ Failed(stations_result)) =>
          /\ pc = "done"
          /\ Failed(outcome)
          /\ weather_data = <<>>
          /\ ~Issued("obs")

\* C6 witness: the forecast fetch has failed for good while the first
\* station-list request is still unanswered; the join is still waiting.
C6_Witness ==
    /\ pc = "stage2"
    /\ task["forecast"].state = "done"
    /\ ~task["forecast"].result[1].ok
    /\ task["stations"].state = "inflight"
    /\ task["stations"].reqs = 1

\* The integer nearest to n / 9 (n / 9 is never halfway between two).
NearestNinth(n) == CHOOSE c \in -200..200 : 2 * (9 * c - n) \in -9..9

\* The baseline temperature of a forecast period: (F - 32) / 1.8 rounded
\* for unit "F", the temperature itself otherwise.
ExpectedBaseline(p) ==
    IF p.temperature_unit = "F"
    THEN NearestNinth(5 * (p.temperature - 32))
    ELSE p.temperature

\* C7: with a forecast that has a first period, when the station list is
\* empty or the observation fetch failed (whatever its last failure was),
\* get_weather_data returned Ok: temperature the forecast baseline,
\* condition the first period's short forecast, humidity, wind speed and
\* wind direction unset.
C7_ObservationFailureDegrades ==
    (/\ pc = "done"
     /\ Succeeded(forecast_result)
     /\ Succeeded(stations_result)
     /\ forecast_result[1].val[1].periods # <<>>
     /\ \/ stations_result[1].val[1].features = <<>>
        \/ Failed(obs_result))
    => LET first == forecast_result[1].val[1].periods[1] IN
       outcome = <<Ok([temperature |-> ExpectedBaseline(first),
                       condition |-> first.short_forecast,
                       humidity |-> <<>>,
                       wind_speed |-> <<>>,
                       wind_direction |-> <<>>])>>

\* C7 witness: the observation fetch failed on undecodable 2xx bodies and
\* the 68 F forecast was returned as 20 C.
C7_Witness ==
    /\ pc = "done"
    /\ Failed(obs_result)
    /\ obs_result[1].err[1] = NetworkError("decode")
    /\ Succeeded(outcome)
    /\ forecast_result[1].val[1].periods[1].temperature = 68
    /\ outcome[1].val[1].temperature = 20

\* The value of an optional observation field, when field and value are
\* both present.
PresentValue(field) ==
    IF field # <<>> /\ field[1].value # <<>> THEN field[1].value ELSE <<>>

\* C8: when the observation fetch returned Ok, get_weather_data returned Ok;
\* if the observation temperature is present the result temperature is the
\* integer nearest to it, whatever the forecast said; humidity, wind speed
\* and wind direction are the observation's values where field and value
\* are present and unset otherwise (19.4 C, humidity 55, no wind: 19, 55,
\* unset, unset).
C8_ObservationOverrides ==
    (pc = "done" /\ Succeeded(obs_result))
    => /\ Succeeded(outcome)
       /\ LET o == obs_result[1].val[1]
              wd == outcome[1].val[1]
          IN /\ o.temperature.value # <<>> =>
                   10 * wd.temperature - o.temperature.value[1] \in -5..5
             /\ wd.humidity = PresentValue(o.relative_humidity)
             /\ wd.wind_speed = PresentValue(o.wind_speed)
             /\ wd.wind_direction = PresentValue(o.wind_direction)
             /\ (/\ o.temperature.value = <<194>>
                 /\ o.relative_humidity = <<[value |-> <<550>>]>>
                 /\ o.wind_speed = <<>>
                 /\ o.wind_direction = <<>>)
                => /\ wd.temperature = 19
                   /\ wd.humidity = <<550>>
                   /\ wd.wind_speed = <<>>
                   /\ wd.wind_direction = <<>>

\* C8 witness: forecast 68 F (baseline 20), observation 19.4 C with
\* humidity 55 and no wind fields: temperature 19, humidity 55.
C8_Witness ==
    /\ pc = "done"
    /\ Succeeded(obs_result)
    /\ obs_result[1].val[1].temperature.value = <<194>>
    /\ obs_result[1].val[1].relative_humidity = <<[value |-> <<550>>]>>
    /\ obs_result[1].val[1].wind_speed = <<>>
    /\ forecast_result[1].val[1].periods[1].temperature = 68
    /\ outcome[1].val[1].temperature = 19
    /\ outcome[1].val[1].humidity = <<550>>

EmptyForecast ==
    Succeeded(forecast_result) /\ forecast_result[1].val[1].periods = <<>>

\* C9 as stated: if the forecast fetch returned Ok with an empty period
\* list, get_weather_data failed with NoWeatherData and issued no
\* observation request.
C9_EmptyForecastIsNoWeatherData ==
    EmptyForecast =>
        /\ pc = "done"
        /\ outcome = <<Err(NoWeatherData)>>
        /\ ~Issued("obs")

\* C9 as amended: if the forecast fetch returned Ok with an empty period
\* list, get_weather_data failed and issued no observation request; the
\* error is NoWeatherData when the station-list fetch returned Ok (its list
\* empty or not), and the station-list fetch's error when that fetch failed.
C9_EmptyForecastFails ==
    EmptyForecast =>
        /\ pc = "done"
        /\ ~Issued("obs")
        /\ Failed(outcome)
        /\ Succeeded(stations_result) => outcome = <<Err(NoWeatherData)>>
        /\ Failed(stations_result) =>
              outcome = <<Err(stations_result[1].err[1])>>

\* C9 witness: an empty forecast with a non-empty station list ended in
\* NoWeatherData without an observation request.
C9_Witness ==
    /\ EmptyForecast
    /\ Succeeded(stations_result)
    /\ stations_result[1].val[1].features # <<>>
    /\ outcome = <<Err(NoWeatherData)>>
    /\ calls["obs"] = 0

\* C10: when the forecast fetch and the station-list fetch both failed, the
\* error get_weather_data returned carries both failures.
C10_BothFailuresSurfaced ==
    (pc = "done" /\ Failed(forecast_result) /\ Failed(stations_result))
    => /\ Failed(outcome)
       /\ outcome[1].err[1] = forecast_result[1].err[1]
       /\ outcome[1].err[1] = stations_result[1].err[1]

\* C11: the baseline temperature, which weather_data holds until an
\* observation overrides it, comes from the first forecast period: for unit
\* "F" the integer nearest to (F - 32) / 1.8 (68 F gives 20), for any other
\* unit the forecast temperature unchanged.
C11_BaselineFromFirstPeriod ==
    (weather_data # <<>> /\ ~Succeeded(obs_result))
    => LET p == forecast_result[1].val[1].periods[1]
           c == weather_data[1].temperature
       IN /\ p.temperature_unit = "F" =>
                2 * (9 * c - 5 * (p.temperature - 32)) \in -9..9
          /\ (p.temperature_unit = "F" /\ p.temperature = 68) => c = 20
          /\ p.temperature_unit # "F" => c = p.temperature

\* C11 witness: the 31 F forecast gave the baseline -1 C (-0.56 rounded) and
\* the observation request is still in flight.
C11_Witness ==
    /\ pc = "obs"
    /\ weather_data # <<>>
    /\ forecast_result[1].val[1].periods[1].temperature_unit = "F"
    /\ forecast_result[1].val[1].periods[1].temperature = 31
    /\ weather_data[1].temperature = -1

----------------------------------------------------------------------------
(* Claims about resolve_location (checked under ResolveSpec)               *)

\* A string of exactly five characters, each an ASCII digit.
FiveAsciiDigits(z) ==
    Len(z) = 5 /\ \A i \in 1..5 : z[i] \in {"0", "1", "2", "3", "4", "5", "6", "7", "8", "9"}

\* No get_with_retry call was made and no request is out.
NoNetworkRequest ==
    \A t \in Tasks : calls[t] = 0 /\ task[t] = IdleFrame

\* resolve_location has returned the error of the given kind.
ResolveFailedWith(kind) ==
    /\ rpc = "done"
    /\ resolve_result # <<>>
    /\ ~resolve_result[1].ok
    /\ resolve_result[1].err[1].kind = kind

\* C12: when zip is given and is not exactly five ASCII digits (wrong
\* length, or a character that is not an ASCII digit), resolve_location has
\* returned, once called, the invalid-ZIP error carrying that string, and no
\* network request was issued.
C12_MalformedZipRejected ==
    (args.zip # <<>> /\ ~FiveAsciiDigits(args.zip[1]) /\ rpc # "start")
    => /\ ResolveFailedWith("InvalidZip")
       /\ resolve_result[1].err[1].text = Concat(args.zip[1])
       /\ NoNetworkRequest

\* C12 witness: five characters, the last one a letter, were rejected.
C12_Witness ==
    /\ args.zip = << <<"9", "9", "9", "9", "x">> >>
    /\ ResolveFailedWith("InvalidZip")

\* The value (in hundredths) of the coordinate strings of Places, <<>> for
\* the strings that are not numbers.
ExpectedCoordinate(s) ==
    CASE s = <<"3", "4", ".", "0", "5">> -> <<3405>>
      [] s = <<"-", "1", "1", "8", ".", "2", "4">> -> <<-11824>>
      [] s = <<"3", "9", ".", "8">> -> <<3980>>
      [] s = <<"-", "8", "9", ".", "6", "4">> -> <<-8964>>
      [] s = <<"9", "5", ".", "5", "0">> -> <<9550>>
      [] OTHER -> <<>>

\* C13: for a well-formed ZIP, resolve_location makes exactly one
\* get_with_retry call (the geocoding fetch) and no other; when that fetch
\* returned a response with at least one place, the result is the Location
\* with the first place's name and the parsed values of the first place's
\* latitude and longitude strings, whatever places follow, or the
\* numeric-parse error when one of the two strings is not a number; a
\* response with zero places gives location-not-found.
C13_FirstPlaceResolved ==
    (args.zip # <<>> /\ FiveAsciiDigits(args.zip[1]) /\ rpc # "start")
    => /\ calls["geo"] = 1
       /\ \A t \in Tasks \ {"geo"} : calls[t] = 0
       /\ (rpc = "done" /\ geo_result[1].ok) =>
             LET places == geo_result[1].val[1].places IN
             IF places = <<>>
             THEN ResolveFailedWith("LocationNotFound")
             ELSE LET la == ExpectedCoordinate(places[1].latitude)
                      lo == ExpectedCoordinate(places[1].longitude)
                  IN IF la # <<>> /\ lo # <<>>
                     THEN /\ resolve_result[1].ok
                          /\ resolve_result[1].val[1].name = places[1].place_name
                          /\ resolve_result[1].val[1].lat = la[1]
                          /\ resolve_result[1].val[1].lon = lo[1]
                     ELSE ResolveFailedWith("Parse")

\* C13 witness: a response with two places, Springfield before Beverly
\* Hills, resolved to Springfield.
C13_Witness ==
    /\ rpc = "done"
    /\ geo_result # <<>> /\ geo_result[1].ok
    /\ Len(geo_result[1].val[1].places) = 2
    /\ geo_result[1].val[1].places[1].place_name = "Springfield"
    /\ geo_result[1].val[1].places[2].place_name = "Beverly Hills"
    /\ resolve_result[1].ok
    /\ resolve_result[1].val[1].lat = 3980

\* C14: on the coordinate path (zip absent, lat and lon both given),
\* resolve_location has returned once called, without any network request:
\* the invalid-coordinates error when lat is outside [-90, 90] or lon is
\* outside [-180, 180], and otherwise, the boundaries included, a Location
\* with exactly the given lat and lon.
C14_CoordinatePathValidated ==
    (args.zip = <<>> /\ args.lat # <<>> /\ args.lon # <<>> /\ rpc # "start")
    => /\ rpc = "done"
       /\ NoNetworkRequest
       /\ IF args.lat[1] \in -9000..9000 /\ args.lon[1] \in -18000..18000
          THEN /\ resolve_result[1].ok
               /\ resolve_result[1].val[1].lat = args.lat[1]
               /\ resolve_result[1].val[1].lon = args.lon[1]
          ELSE ResolveFailedWith("InvalidCoordinates")

\* C14 witness: the pair (90, -180), both on a boundary, was accepted.
C14_Witness ==
    /\ args.zip = <<>> /\ args.lat = <<9000>> /\ args.lon = <<-18000>>
    /\ rpc = "done"
    /\ resolve_result[1].ok

\* C15: every Location that resolve_location returns has its latitude in
\* [-90, 90] and its longitude in [-180, 180].
C15_ResolvedLocationInRange ==
    (resolve_result # <<>> /\ resolve_result[1].ok)
    => /\ resolve_result[1].val[1].lat \in -9000..9000
       /\ resolve_result[1].val[1].lon \in -18000..18000

\* C16: when zip is absent and lat and lon are not both given,
\* resolve_location has returned, once called, location-not-found (and not
\* invalid-coordinates, even when the coordinate given is out of range),
\* and no network request was issued.
C16_IncompleteInputNotFound ==
    (args.zip = <<>> /\ (args.lat = <<>> \/ args.lon = <<>>) /\ rpc # "start")
    => /\ ResolveFailedWith("LocationNotFound")
       /\ NoNetworkRequest

\* C16 witness: a latitude out of range given alone ended in
\* location-not-found.
C16_Witness ==
    /\ args.zip = <<>> /\ args.lat = <<9001>> /\ args.lon = <<>>
    /\ ResolveFailedWith("LocationNotFound")

----------------------------------------------------------------------------
(* Claims about wait_for_network (checked under ProbeSpec)                 *)

\* The candidates in their fixed order.
CandidateOrder == <<"https://api.weather.gov", "https://8.8.8.8", "https://1.1.1.1">>

\* The probes sent so far went to the candidates in order, round after
\* round, and a delay was taken after each completed round that was
\* followed by another probe, and only then.
ProbedInOrder ==
    /\ \A i \in 1..Len(probe.sent) : probe.sent[i] = CandidateOrder[((i - 1) % 3) + 1]
    /\ Len(probe.sleeps) = IF probe.sent = <<>> THEN 0
                           ELSE (Len(probe.sent) - 1) \div 3

\* The latest probe was answered by a response.
Responded == probe.last # <<>> /\ probe.last[1].kind = "response"

\* C17: once a probe has received a response, whatever its status,
\* wait_for_network has returned success with no delay pending, the probes
\* sent were sent in the fixed order of the candidates, the step that
\* received it sent no further probe and took no delay, and no probe,
\* round or delay follows it.
C17_FirstResponseSucceeds ==
    /\ [](Responded =>
            /\ probe.state = "done"
            /\ probe.result[1].ok
            /\ probe.delay = 0
            /\ ProbedInOrder)
    /\ [][Responded' =>
            /\ probe'.sent = probe.sent
            /\ probe'.sleeps = probe.sleeps
            /\ probe'.state = "done"]_vars

\* C17 witness: the second candidate of the second round answered 503 and
\* the prober returned success after five probes and one delay.
C17_Witness ==
    /\ probe.state = "done"
    /\ probe.result[1].ok
    /\ probe.last[1].status = 503
    /\ Len(probe.sent) = 5
    /\ Len(probe.sleeps) = 1

\* C18: while no probe is answered by a response, wait_for_network goes
\* through exactly 10 rounds of the 3 candidates in order, with a delay of
\* 2000 ms after each round but the last, and then has returned the
\* connectivity error; it returns that error only then, and returns
\* success only after a response.
C18_ExhaustedProbesFail ==
    /\ Len(probe.sent) <= 10 * 3
    /\ ProbedInOrder
    /\ \A i \in 1..Len(probe.sleeps) : probe.sleeps[i] = 2000
    /\ probe.state = "sleep" =>
          probe.delay = 2000 /\ Len(probe.sent) % 3 = 0 /\ Len(probe.sent) < 10 * 3
    /\ (~Responded /\ Len(probe.sent) = 10 * 3 /\ probe.state # "probing") =>
          probe.state = "done"
    /\ (probe.state = "done" /\ ~probe.result[1].ok) =>
          /\ ~Responded
          /\ Len(probe.sent) = 10 * 3
          /\ Len(probe.sleeps) = 10 - 1
          /\ probe.result[1].err[1].kind = "Api"
          /\ probe.result[1].err[1].cause = "Network connectivity check failed"
    /\ (probe.state = "done" /\ probe.result[1].ok) => Responded

\* C18 witness: the prober failed, the last probe having timed out.
C18_Witness ==
    /\ probe.state = "done"
    /\ ~probe.result[1].ok
    /\ probe.last[1].kind = "timeout"

----------------------------------------------------------------------------
(* Claims about run_weather_app of lib.rs (checked under AppSpec)          *)

\* resolve_location or get_weather_data has been entered, or a fetch has
\* been called or is out.
PipelineTouched ==
    \/ rpc # "idle"
    \/ pc # "idle"
    \/ \E t \in Tasks : calls[t] > 0 \/ task[t] # IdleFrame

\* C19: with wait_for_network enabled, the prober is called at most once;
\* while it has not returned success, resolve_location and get_weather_data
\* have not been entered and no fetch has been called; and when it has
\* failed, run_weather_app has returned, once it has taken the result, the
\* prober's error, still without any fetch.
C19_ProberGatesThePipeline ==
    args.wait_for_network
    => /\ probe.calls <= 1
       /\ PipelineTouched =>
             /\ probe.state = "idle"
             /\ probe.calls = 1
             /\ probe.result # <<>> /\ probe.result[1].ok
       /\ (probe.result # <<>> /\ ~probe.result[1].ok /\ probe.state = "idle") =>
             /\ app.pos = "returned"
             /\ run_result = <<Err(probe.result[1].err[1])>>
             /\ ~PipelineTouched

\* C19 witness: the prober has returned success, and after it the grid
\* lookup of get_weather_data was called.
C19_Witness ==
    /\ args.wait_for_network
    /\ probe.calls = 1
    /\ probe.result # <<>> /\ probe.result[1].ok
    /\ calls["grid"] = 1

----------------------------------------------------------------------------
(* Claims about main (checked under MainSpec)                              *)

\* C20: when the process has exited in failure, standard output holds, for
\* the waybar format, exactly the fallback JSON object (text "Weather
\* Error", class "weather-error", a tooltip that carries the message
\* printed on standard error), and for the other formats nothing.
C20_FailureWritesFallback ==
    (exit_code # <<>> /\ exit_code[1] # 0)
    => IF args.format = "Waybar"
       THEN /\ Len(stdout) = 1
            /\ stdout[1].kind = "json"
            /\ stdout[1].json[1].text = "Weather Error"
            /\ stdout[1].json[1].class = "weather-error"
            /\ stdout[1].json[1].tooltip =
                  "Failed to get weather data: " \o DisplayError(run_result[1].err[1])
       ELSE stdout = <<>>

FirstStageError ==
    IF probe.result # <<>> /\ ~probe.result[1].ok THEN probe.result[1].err
    ELSE IF resolve_result # <<>> /\ ~resolve_result[1].ok
    THEN resolve_result[1].err
    ELSE IF point_result # <<>> /\ ~point_result[1].ok THEN point_result[1].err
    ELSE IF forecast_result # <<>> /\ ~forecast_result[1].ok
    THEN forecast_result[1].err
    ELSE IF stations_result # <<>> /\ ~stations_result[1].ok
    THEN stations_result[1].err
    ELSE IF forecast_result # <<>> /\ forecast_result[1].val[1].periods = <<>>
    THEN <<[kind |-> "NoWeatherData", cause |-> "", status |-> 0, text |-> ""]>>
    ELSE <<>>

\* The get_with_retry calls made by the stages that follow the given one.
CallsAfter(stage) ==
    CASE stage = "prober" -> {"geo", "grid", "forecast", "stations", "obs"}
      [] stage = "resolve" -> {"grid", "forecast", "stations", "obs"}
      [] stage = "grid" -> {"forecast", "stations", "obs"}
      [] stage = "stage2" -> {"obs"}

\* The stage of the run that failed first.
FirstFailedStage ==
    IF probe.result # <<>> /\ ~probe.result[1].ok THEN "prober"
    ELSE IF resolve_result # <<>> /\ ~resolve_result[1].ok THEN "resolve"
    ELSE IF point_result # <<>> /\ ~point_result[1].ok THEN "grid"
    ELSE "stage2"

\* C22: when run_weather_app has returned an error, that error is, kind
\* and message unchanged, the error of the first stage that failed (the
\* prober, location resolution, the grid lookup, the forecast fetch, the
\* station-list fetch, the empty forecast), and no stage after it has made
\* a call; and whenever a stage has failed, run_weather_app returns an
\* error.
C22_FatalErrorsPropagateUnchanged ==
    /\ (run_result # <<>> /\ ~run_result[1].ok) =>
          /\ FirstStageError # <<>>
          /\ run_result[1].err = FirstStageError
          /\ \A t \in CallsAfter(FirstFailedStage) : calls[t] = 0
          /\ FirstFailedStage = "prober" => rpc = "idle"
          /\ FirstFailedStage \in {"prober", "resolve"} => pc = "idle"
    /\ (app.pos = "returned" /\ FirstStageError # <<>>) =>
          run_result # <<>> /\ ~run_result[1].ok

\* C22 witness: the station-list fetch failed after the forecast fetch had
\* succeeded, and run_weather_app returned the station-list error.
C22_Witness ==
    /\ app.pos = "returned"
    /\ forecast_result # <<>> /\ forecast_result[1].ok
    /\ stations_result # <<>> /\ ~stations_result[1].ok
    /\ run_result = <<Err(stations_result[1].err[1])>>

\* The requests a frame has sent so far all carried the User-Agent of the
\* client, and a frame that has sent none has recorded none.
AllRequestsIdentified ==
    /\ \A t \in Tasks :
          task[t].agents = IF task[t].reqs > 0 THEN {<<USER_AGENT>>} ELSE {}
    /\ probe.agents = IF probe.sent # <<>> THEN {<<USER_AGENT>>} ELSE {}

\* C23: every request of a run (the geocoding, grid, forecast, station-list
\* and observation fetches and the readiness probes) carries the one
\* User-Agent value USER_AGENT, the configuration of the client is the one
\* WeatherClient::new built, and no step of the run changes it, the steps
\* of the two concurrent stage-2 fetches included.
C23_RequestsCarryFixedAgent ==
    /\ [](AllRequestsIdentified /\ client = NewClient)
    /\ [][client' = client]_vars

\* C23 witness: the prober has run and both stage-2 fetches are in flight
\* at once, each on a retry, every request so far with the User-Agent.
C23_Witness ==
    /\ probe.calls = 1
    /\ pc = "stage2"
    /\ \A t \in Stage2Tasks :
          /\ task[t].state = "inflight"
          /\ task[t].reqs >= 2
          /\ task[t].agents = {<<USER_AGENT>>}
    /\ client.user_agent = <<USER_AGENT>>

DecodeFailed(f) ==
    /\ f.last_resp # <<>>
    /\ ~Decoded2xx(f.last_resp[1])
    /\ FailureClass(f.last_resp[1]) = "decode"

\* C25: a 2xx answer whose body does not decode counts as a failed attempt
\* of get_with_retry: it has used up one attempt; while attempts remain the
\* call is in the backoff wait RETRY_DELAY_MS * attempt with the decode
\* error as last_error, and the step that ends the wait sends the next
\* request to the same URL; after the last attempt the call has returned
\* that decode error.  No call sends more than MAX_RETRIES requests.
C25_DecodeFailureIsRetried ==
    /\ [](\A t \in Tasks :
             LET f == task[t] IN
             /\ f.reqs <= MAX_RETRIES
             /\ DecodeFailed(f) =>
                   /\ f.state \in {"sleep", "inflight", "done"}
                   /\ f.state = "sleep" =>
                         /\ f.attempt = f.resps /\ f.reqs = f.resps
                         /\ f.attempt < MAX_RETRIES
                         /\ f.last_error = <<NetworkError("decode")>>
                         /\ f.delay = RETRY_DELAY_MS * f.attempt
                   /\ f.state = "inflight" =>
                         /\ f.reqs = f.resps + 1
                         /\ Len(f.waits) = f.resps
                   /\ f.state = "done" =>
                         /\ f.resps = MAX_RETRIES
                         /\ f.result = <<Err(NetworkError("decode"))>>)
    /\ [][\A t \in Tasks :
             (task[t].state = "sleep" /\ task'[t] # task[t]) =>
                 /\ task'[t].state = "inflight"
                 /\ task'[t].url = task[t].url
                 /\ task'[t].reqs = task[t].reqs + 1
                 /\ task'[t].attempt = task[t].attempt + 1]_vars

\* C25 witness: the fourth attempt was answered by an undecodable 2xx body,
\* the fourth wait was taken and the fifth request is in flight.
C25_Witness ==
    \E t \in Tasks :
        /\ DecodeFailed(task[t])
        /\ task[t].state = "inflight"
        /\ task[t].resps = MAX_RETRIES - 1
        /\ task[t].reqs = MAX_RETRIES
        /\ task[t].waits = <<2000, 4000, 6000, 8000>>

\* C26: get_weather_data makes at most one get_with_retry call for
\* observations, it makes it when the join returns, and the call asks for
\* the latest observation of the first station of the station list; once
\* that fetch has failed, no observation fetch is running and none is
\* started again: get_weather_data has returned.
C26_OnlyFirstStationQueried ==
    /\ [](/\ calls["obs"] <= 1
          /\ task["obs"].url # <<>> =>
                /\ Succeeded(stations_result)
                /\ stations_result[1].val[1].features # <<>>
                /\ task["obs"].url =
                      <<ObservationUrl(stations_result[1].val[1].features[1])>>
          /\ Failed(obs_result) =>
                /\ calls["obs"] = 1
                /\ task["obs"] = IdleFrame
                /\ pc = "done"
                /\ outcome # <<>> /\ outcome[1].ok)
    /\ [][/\ calls'["obs"] # calls["obs"] => pc = "stage2" /\ pc' = "obs"
          /\ (task["obs"].state = "idle" /\ task'["obs"].state # "idle") =>
                calls'["obs"] = calls["obs"] + 1]_vars

\* C26 witness: the station list named two different stations, the
\* observation fetch for the first one failed after its MAX_RETRIES
\* attempts, and that was the only observation call.
C26_Witness ==
    /\ Succeeded(stations_result)
    /\ Len(stations_result[1].val[1].features) = 2
    /\ stations_result[1].val[1].features[1] # stations_result[1].val[1].features[2]
    /\ Failed(obs_result)
    /\ calls["obs"] = 1
    /\ pc = "done"
    /\ outcome # <<>> /\ outcome[1].ok

\* C27: when the observation fetch returned Ok with no temperature value,
\* get_weather_data returned Ok with the temperature of the forecast
\* baseline and the condition of the first period, and with humidity, wind
\* speed and wind direction those of the observation where field and value
\* are present (unset otherwise).
C27_BaselineKeptWithoutTemperature ==
    (/\ pc = "done"
     /\ Succeeded(obs_result)
     /\ obs_result[1].val[1].temperature.value = <<>>)
    => LET o == obs_result[1].val[1]
           first == forecast_result[1].val[1].periods[1]
       IN outcome = <<Ok([temperature |-> ExpectedBaseline(first),
                          condition |-> first.short_forecast,
                          humidity |-> PresentValue(o.relative_humidity),
                          wind_speed |-> PresentValue(o.wind_speed),
                          wind_direction |-> PresentValue(o.wind_direction)])>>

\* C27 witness: forecast 68 F, an observation without temperature but with
\* humidity, wind speed and wind direction: 20 C with the three values of
\* the observation.
C27_Witness ==
    /\ pc = "done"
    /\ Succeeded(obs_result)
    /\ obs_result[1].val[1].temperature.value = <<>>
    /\ PresentValue(obs_result[1].val[1].relative_humidity) # <<>>
    /\ PresentValue(obs_result[1].val[1].wind_speed) # <<>>
    /\ PresentValue(obs_result[1].val[1].wind_direction) # <<>>
    /\ forecast_result[1].val[1].periods[1].temperature = 68
    /\ outcome[1].val[1].temperature = 20
    /\ outcome[1].val[1].humidity = PresentValue(obs_result[1].val[1].relative_humidity)
    /\ outcome[1].val[1].wind_speed = PresentValue(obs_result[1].val[1].wind_speed)

\* The icon of the "mostly sunny" rule in each icon set.
MostlySunnyIcon(icon_set) ==
    CASE icon_set = "NerdFont" -> "nf-weather-day_sunny_overcast"
      [] icon_set = "Unicode" -> UnicodeIcons[3]
      [] icon_set = "Emoji" -> EmojiIcons[3]
      [] icon_set = "Text" -> TextIcons[3]

\* C28 as stated: in every icon set, the icon create_output got from
\* get_weather_icon for a condition whose lower-cased text contains
\* "mostly sunny" is the mostly-sunny icon of the set, not the plain sunny
\* one.
C28_MostlySunnyTestedFirst ==
    (/\ outputs # <<>>
     /\ args.format = "Json"
     /\ Contains(ToLowercase(Chars(weather_data[1].condition)), "mostly sunny"))
    => /\ outputs[1].val[1].json[1].icon = MostlySunnyIcon(args.icons)
       /\ outputs[1].val[1].json[1].icon
             # get_weather_icon("sunny", args.icons)

\* The latest answer to the call of frame f is a response with a 4xx
\* status.
ClientErrorAnswer(f) ==
    /\ f.last_resp # <<>>
    /\ f.last_resp[1].sent
    /\ f.last_resp[1].status \in 400..499

\* C29: a 4xx answer is a failed attempt like any other: while attempts
\* remain the geocoding call waits RETRY_DELAY_MS * attempt and sends
\* again, and it returns the Api error of that status only after
\* MAX_RETRIES requests and the waits 2000, 4000, 6000 and 8000 ms; when
\* the geocoding fetch has failed, resolve_location has failed with the
\* very error of the fetch, which for a 4xx answer is the Api error with
\* that status and body and never LocationNotFound.
C29_ClientErrorsRetried ==
    /\ [](LET f == task["geo"] IN
          /\ ClientErrorAnswer(f) =>
                /\ f.state \in {"sleep", "inflight", "done"}
                /\ f.state = "sleep" =>
                      /\ f.attempt < MAX_RETRIES
                      /\ f.delay = RETRY_DELAY_MS * f.attempt
                      /\ f.last_error =
                            <<ApiHttpError(f.last_resp[1].status, f.last_resp[1].text)>>
                /\ f.state = "inflight" => f.reqs = f.resps + 1
                /\ f.state = "done" =>
                      /\ f.reqs = MAX_RETRIES /\ f.resps = MAX_RETRIES
                      /\ f.waits = <<2000, 4000, 6000, 8000>>
                      /\ f.result =
                            <<Err(ApiHttpError(f.last_resp[1].status,
                                               f.last_resp[1].text))>>
          /\ Failed(geo_result) =>
                /\ resolve_result = <<Err(geo_result[1].err[1])>>
                /\ resolve_result[1].err[1].kind \in {"Api", "Network"}
                /\ resolve_result[1].err[1] # LocationNotFound)
    /\ [][geo_result' # geo_result =>
             /\ geo_result' = task["geo"].result
             /\ ~task["geo"].result[1].ok =>
                   /\ task["geo"].reqs = MAX_RETRIES
                   /\ task["geo"].waits = <<2000, 4000, 6000, 8000>>]_vars

\* C29 witness: a five-digit ZIP was looked up, the geocoding service
\* answered 404 to the last attempt, and resolve_location failed with the
\* Api error of status 404.
C29_Witness ==
    /\ args.zip # <<>> /\ FiveAsciiDigits(args.zip[1])
    /\ calls["geo"] = 1
    /\ Failed(geo_result)
    /\ resolve_result = <<Err(ApiHttpError(404, "upstream says no"))>>
    /\ rpc = "done"

\* The frame of a stage-2 fetch accounts for its own requests and answers
\* only: its attempt counter is the number of its own requests, its
\* last_error the error of its own latest answer, and it fails only after
\* MAX_RETRIES answers of its own, with the error of the last of them.
OwnBudget(f) ==
    /\ f.state = "inflight" => f.attempt = f.reqs /\ f.reqs = f.resps + 1
    /\ f.state = "sleep" =>
          /\ f.attempt = f.resps /\ f.reqs = f.resps
          /\ f.attempt < MAX_RETRIES
          /\ f.last_error = <<AttemptError(f.last_resp[1])>>
    /\ (f.state = "done" /\ ~f.result[1].ok) =>
          /\ f.reqs = MAX_RETRIES /\ f.resps = MAX_RETRIES
          /\ f.result = <<Err(AttemptError(f.last_resp[1]))>>
    /\ (f.state = "done" /\ f.result[1].ok) =>
          f.result = <<Ok(f.last_resp[1].json[1])>>

\* C30: while the forecast and the station-list fetch run concurrently,
\* each frame keeps its own attempt counter and last_error (OwnBudget), and
\* every step of stage 2 changes one of the two frames and leaves the
\* other exactly as it was: an answer to one fetch neither uses an attempt
\* of the other nor touches the error the other will report.
C30_Stage2LoopsIndependent ==
    /\ [](pc = "stage2" => \A t \in Stage2Tasks : OwnBudget(task[t]))
    /\ [][(pc = "stage2" /\ pc' = "stage2") =>
             \/ task'["forecast"] = task["forecast"]
             \/ task'["stations"] = task["stations"]]_vars

\* C30 witness: both fetches failed, each after MAX_RETRIES attempts of its
\* own: the forecast on a failed send, the station list on a 404.
C30_Witness ==
    /\ pc = "stage2"
    /\ \A t \in Stage2Tasks :
          /\ task[t].state = "done"
          /\ task[t].reqs = MAX_RETRIES
          /\ task[t].waits = <<2000, 4000, 6000, 8000>>
    /\ task["forecast"].result = <<Err(NetworkError("send"))>>
    /\ task["stations"].result = <<Err(ApiHttpError(404, "upstream says no"))>>

\* The fetches of get_weather_data.
WeatherTasks == {"grid", "forecast", "stations", "obs"}

\* The bounds of a run: a get_with_retry call has sent at most MAX_RETRIES
\* requests, each fetch has been called at most once, and wait_for_network
\* is called at most once and has sent at most ProbeRounds rounds of
\* Len(test_urls) probes.
RunBounded ==
    /\ \A t \in Tasks :
          /\ task[t].reqs <= MAX_RETRIES
          /\ task[t].attempt <= MAX_RETRIES
          /\ calls[t] <= 1
          /\ task[t].reqs > 0 => calls[t] = 1
    /\ probe.calls <= 1
    /\ probe.attempt <= ProbeRounds
    /\ Len(probe.sent) <= ProbeRounds * Len(test_urls)

\* A step sends at most one more request per fetch, and a request is the
\* first of the fetch's one call or a further attempt of that call.
OneRequestPerStep ==
    \A t \in Tasks :
        task'[t].reqs > task[t].reqs =>
            /\ task'[t].reqs = task[t].reqs + 1
            /\ task[t].reqs = 0 => calls[t] = 0 /\ calls'[t] = 1
            /\ task[t].reqs > 0 => calls'[t] = calls[t]

\* C31: when every attempt, probe and sleep ends, every run of
\* run_weather_app ends, having returned an output or an error; on the way
\* no get_with_retry call sends more than MAX_RETRIES requests,
\* wait_for_network sends at most 10 rounds of 3 probes, and
\* get_weather_data calls each of its four fetches (grid, forecast, station
\* list, observation) at most once, every request being an attempt of one
\* of these calls, which makes at most 4 * MAX_RETRIES requests in total.
C31_RunTerminatesWithinBudget ==
    /\ []RunBounded
    /\ [][OneRequestPerStep]_vars
    /\ <>[](app.pos = "returned" /\ run_result # <<>>)

\* C31 witness: a run with the prober on has come to its end with an
\* output after all four fetches of get_weather_data were called, the
\* observation fetch having failed after its MAX_RETRIES attempts.
C31_Witness ==
    /\ app.pos = "returned"
    /\ args.wait_for_network /\ probe.calls = 1
    /\ \A t \in WeatherTasks : calls[t] = 1
    /\ Failed(obs_result)
    /\ run_result # <<>> /\ run_result[1].ok

====
